---------------------------- MODULE Spec2Model ----------------------------
(***************************************************************************)
(* courtfinder-akl: the refresh-and-consistency pipeline.                  *)
(*                                                                         *)
(* Two deployments of the same pipeline live in the repository and both    *)
(* are modelled; the variable `variant' says which one a behaviour runs:   *)
(*   "worker"  services/refresh.ts + services/email-alerter.ts +           *)
(*             services/kv-cache.ts (state in a key-value store, change    *)
(*             detection and webhooks)                                     *)
(*   "node"    services/scheduler.ts + services/alerter.ts +               *)
(*             services/cache.ts (state in process memory)                 *)
(*                                                                         *)
(* Conventions.  Text that the code compares character by character        *)
(* (court names) is a sequence of UTF-16 code units.  A date "YYYY-MM-DD"  *)
(* is its day ordinal: for that fixed-width format the string order the    *)
(* code uses is the order of the ordinals.  An instant is a number of      *)
(* minutes; NoTime stands for null.  Null stands for a null/absent object. *)
(***************************************************************************)
EXTENDS Integers, Sequences, FiniteSets, TLC

----------------------------------------------------------------------------
(* Bounds of the model *)

\* number of clock ticks a behaviour may take
MaxTicks == 2
\* minutes that pass in one clock tick
TickMinutes == 15
\* cap on the consecutive-failure counter (the code's counter is unbounded)
MaxFailures == 2

----------------------------------------------------------------------------
(* Program constants *)

\* config.cron.fetchDaysAhead (FETCH_DAYS_AHEAD), an integer the configuration
\* takes from 1 to 14: the deployments modelled here run with FETCH_DAYS_AHEAD=1
FetchDaysAhead == 1
SLOT_START_HOUR == 6
SLOT_END_HOUR == 22
ALERT_COOLDOWN_MINUTES == 30
CACHE_TTL_MINUTES == 20
STALE_SERVE_MINUTES == 60

Null == [null |-> TRUE]
NoTime == 0 - 1

DigitStr == <<"0", "1", "2", "3", "4", "5", "6", "7", "8", "9">>

\* hour.toString().padStart(2, "0") + ":00"
HourLabel(hour) ==
    IF hour < 10
    THEN "0" \o DigitStr[hour + 1] \o ":00"
    ELSE DigitStr[(hour \div 10) + 1] \o DigitStr[(hour % 10) + 1] \o ":00"

TIME_SLOTS ==
    [i \in 1..(SLOT_END_HOUR - SLOT_START_HOUR + 1) |->
        HourLabel(SLOT_START_HOUR + i - 1)]

SlotLabels == {TIME_SLOTS[i] : i \in 1..Len(TIME_SLOTS)}

VENUES ==
    << [id |-> "active-bond", name |-> "Active - Bond Crescent",
        address |-> "47 Bond Crescent, Forrest Hill, Auckland 0620",
        provider |-> "active"],
       [id |-> "active-corinthian", name |-> "Active - Corinthian Dr.",
        address |-> "20 Corinthian Drive, Albany, Auckland 0632",
        provider |-> "active"],
       [id |-> "evergreen", name |-> "Evergreen Badminton",
        address |-> "22B Corinthian Drive, Albany, Auckland 0632",
        provider |-> "evergreen"] >>

VenueIds == {VENUES[i].id : i \in 1..Len(VENUES)}

\* VENUES.find((v) => v.id === id)!
FindVenue(id) == VENUES[CHOOSE i \in 1..Len(VENUES) : VENUES[i].id = id]

\* VENUE_ID_MAP of the anonymous provider
VENUE_ID_MAP == [x \in {"1", "2"} |-> IF x = "1" THEN "active-bond" ELSE "active-corinthian"]

----------------------------------------------------------------------------
(* Text helpers: names as sequences of UTF-16 code units *)

IsDigit(c) == c >= 48 /\ c <= 57

\* name.match(/\d+/): the first maximal run of digits, <<>> when there is none
FirstDigitRun(name) ==
    IF \A i \in 1..Len(name) : ~IsDigit(name[i])
    THEN <<>>
    ELSE LET first == CHOOSE i \in 1..Len(name) :
                         IsDigit(name[i]) /\ \A j \in 1..(i - 1) : ~IsDigit(name[j])
             last == CHOOSE k \in first..Len(name) :
                         /\ \A j \in first..k : IsDigit(name[j])
                         /\ (k = Len(name) \/ ~IsDigit(name[k + 1]))
         IN SubSeq(name, first, last)

\* const courtNumber = match ? match[0] : name
CourtNumber(name) ==
    IF FirstDigitRun(name) # <<>> THEN FirstDigitRun(name) ELSE name

\* a < b in the order Array.prototype.sort() uses without a comparator:
\* code unit by code unit, a proper prefix first
LexLess(a, b) ==
    \E i \in 1..(Len(a) + 1) :
        /\ \A j \in 1..(i - 1) : j <= Len(b) /\ a[j] = b[j]
        /\ i <= Len(b)
        /\ (i > Len(a) \/ a[i] < b[i])

RECURSIVE InsertSorted(_, _)
InsertSorted(sorted, x) ==
    IF sorted = <<>> THEN <<x>>
    ELSE IF LexLess(x, Head(sorted)) THEN <<x>> \o sorted
    ELSE <<Head(sorted)>> \o InsertSorted(Tail(sorted), x)

\* Array.prototype.sort() on an array of strings
RECURSIVE SortStrings(_)
SortStrings(s) ==
    IF s = <<>> THEN <<>>
    ELSE InsertSorted(SortStrings(SubSeq(s, 1, Len(s) - 1)), s[Len(s)])

\* the elements of a set of integers in ascending order
RECURSIVE Ascending(_)
Ascending(S) ==
    IF S = {} THEN <<>>
    ELSE LET m == CHOOSE x \in S : \A y \in S : x <= y
         IN <<m>> \o Ascending(S \ {m})

\* concatenation of a sequence of sequences
RECURSIVE Flatten(_)
Flatten(ss) == IF ss = <<>> THEN <<>> ELSE Head(ss) \o Flatten(Tail(ss))

\* a JavaScript Map (or the object built from it): its entries by key; Null is null
MapOf(entries) == [null |-> FALSE, entries |-> entries]
MapSize(m) == Cardinality(DOMAIN m.entries)

----------------------------------------------------------------------------
(* Provider predicates *)

\* providers/active.ts
isActiveSlotAvailable(status) == status = "Available"

\* VENUE_ID_MAP[activeVenueId] || null; NoVenue stands for null
NoVenue == ""
getInternalVenueId(activeVenueId) ==
    IF activeVenueId \in DOMAIN VENUE_ID_MAP THEN VENUE_ID_MAP[activeVenueId] ELSE NoVenue

\* "🏸" (the badminton emoji) and "🏓" (table tennis)
BadmintonMark == <<55356, 57336>>
TableTennisMark == <<55356, 57299>>
PremiumName == BadmintonMark \o <<32, 55>>

StartsWith(name, prefix) ==
    Len(name) >= Len(prefix) /\ SubSeq(name, 1, Len(prefix)) = prefix

isBadmintonCourt(court) == StartsWith(court.name, BadmintonMark)
isPremiumCourt(court) == court.name = PremiumName
isStandardCourt(court) == StartsWith(court.name, BadmintonMark) /\ court.name # PremiumName
\* the availability test made to look at the booked flag alone
isEvergreenSlotAvailableUnbooked(court) == court.booked = 0

isEvergreenSlotAvailable(court) ==
    court.unavailable = 0 /\ court.booked = 0 /\ court.booking = 0

----------------------------------------------------------------------------
(* Normalizer: services/transformer.ts *)

\* timetable.find((t) => t.start_time === timeSlot): its index, 0 when none
FindTimetable(timetable, timeSlot) ==
    IF \E i \in 1..Len(timetable) : timetable[i].start_time = timeSlot
    THEN CHOOSE i \in 1..Len(timetable) :
            /\ timetable[i].start_time = timeSlot
            /\ \A j \in 1..(i - 1) : timetable[j].start_time # timeSlot
    ELSE 0

\* the availableCourts array of one time slot, before sorting
ActiveAvailableCourts(venueData, timeSlot) ==
    IF venueData = Null THEN <<>>
    ELSE LET open(courtData) ==
                 LET k == FindTimetable(courtData.timetable, timeSlot)
                 IN k # 0 /\ isActiveSlotAvailable(courtData.timetable[k].status)
             kept == SelectSeq(venueData.courts, open)
         IN [i \in 1..Len(kept) |-> CourtNumber(kept[i].name)]

\* the summary made to count a day with available slots once
DaySummaryOncePerDay(slots) ==
    [total_slots |-> Len(TIME_SLOTS),
     available_slots |-> IF \E i \in 1..Len(TIME_SLOTS) : slots[TIME_SLOTS[i]].available
                         THEN 1 ELSE 0]

\* availableCount is incremented once for each time slot with anyAvailable, the
\* value the slot's available field is given
DaySummary(slots) ==
    [total_slots |-> Len(TIME_SLOTS),
     available_slots |-> Cardinality({i \in 1..Len(TIME_SLOTS) : slots[TIME_SLOTS[i]].available})]

ActiveSlot(venueData, timeSlot) ==
    LET availableCourts == ActiveAvailableCourts(venueData, timeSlot)
        anyAvailable == Len(availableCourts) > 0
    IN IF anyAvailable
       THEN [available |-> TRUE, available_courts |-> SortStrings(availableCourts)]
       ELSE [available |-> FALSE]

transformActiveDayData(venueData) ==
    LET slots == [l \in SlotLabels |-> ActiveSlot(venueData, l)]
    IN [slots |-> slots, summary |-> DaySummary(slots)]

\* timeToCourtMap.get(timeSlot): the last entry of that time, Null when none
TimeToCourt(timeSlots, timeSlot) ==
    IF timeSlots = Null \/ \A i \in 1..Len(timeSlots.items) : timeSlots.items[i].time # timeSlot
    THEN Null
    ELSE timeSlots.items[CHOOSE i \in 1..Len(timeSlots.items) :
            /\ timeSlots.items[i].time = timeSlot
            /\ \A j \in (i + 1)..Len(timeSlots.items) : timeSlots.items[j].time # timeSlot]

\* the badminton courts of one time slot that are open, in feed order
EvergreenOpenCourts(tsData) ==
    IF tsData = Null THEN <<>>
    ELSE LET open(court) == isBadmintonCourt(court) /\ isEvergreenSlotAvailable(court)
         IN SelectSeq(tsData.childer, open)

\* the slot made to carry only_premium whenever the premium court is open
EvergreenSlotPremiumFlagged(timeSlots, timeSlot) ==
    LET open == EvergreenOpenCourts(TimeToCourt(timeSlots, timeSlot))
        availableCourts == [i \in 1..Len(open) |-> CourtNumber(open[i].name)]
        premiumAvailable == \E i \in 1..Len(open) : isPremiumCourt(open[i])
        anyAvailable == Len(open) > 0
    IN [available |-> anyAvailable]
       @@ (IF premiumAvailable THEN [only_premium |-> TRUE] ELSE <<>>)
       @@ (IF anyAvailable THEN [available_courts |-> SortStrings(availableCourts)] ELSE <<>>)

EvergreenSlot(timeSlots, timeSlot) ==
    LET open == EvergreenOpenCourts(TimeToCourt(timeSlots, timeSlot))
        availableCourts == [i \in 1..Len(open) |-> CourtNumber(open[i].name)]
        premiumAvailable == \E i \in 1..Len(open) : isPremiumCourt(open[i])
        standardAvailable ==
            \E i \in 1..Len(open) : ~isPremiumCourt(open[i]) /\ isStandardCourt(open[i])
        anyAvailable == standardAvailable \/ premiumAvailable
        onlyPremium == ~standardAvailable /\ premiumAvailable
    IN [available |-> anyAvailable]
       @@ (IF onlyPremium THEN [only_premium |-> TRUE] ELSE <<>>)
       @@ (IF anyAvailable THEN [available_courts |-> SortStrings(availableCourts)] ELSE <<>>)

transformEvergreenDayData(timeSlots) ==
    LET slots == [l \in SlotLabels |-> EvergreenSlot(timeSlots, l)]
    IN [slots |-> slots, summary |-> DaySummary(slots)]

\* the dates object transformActiveData fills for one venue
ActiveVenueDates(activeData, venueId) ==
    LET has == {d \in DOMAIN activeData.entries :
                   \E k \in DOMAIN activeData.entries[d] : getInternalVenueId(k) = venueId}
    IN [d \in has |->
          transformActiveDayData(
              activeData.entries[d][CHOOSE k \in DOMAIN activeData.entries[d] :
                                        getInternalVenueId(k) = venueId])]

EmptyVenue(venueId) ==
    [name |-> FindVenue(venueId).name, address |-> FindVenue(venueId).address, dates |-> <<>>]

\* the transformation made to return only the venues the provider's answer names
transformActiveDataNamedOnly(activeData) ==
    [v \in {w \in {"active-bond", "active-corinthian"} :
               DOMAIN ActiveVenueDates(activeData, w) # {}} |->
        [name |-> FindVenue(v).name, address |-> FindVenue(v).address,
         dates |-> ActiveVenueDates(activeData, v)]]

transformActiveData(activeData) ==
    [v \in {"active-bond", "active-corinthian"} |->
        [name |-> FindVenue(v).name, address |-> FindVenue(v).address,
         dates |-> ActiveVenueDates(activeData, v)]]

transformEvergreenData(evergreenData) ==
    [name |-> FindVenue("evergreen").name, address |-> FindVenue("evergreen").address,
     dates |-> [d \in DOMAIN evergreenData.entries |->
                  transformEvergreenDayData(evergreenData.entries[d])]]

NoDate == 0

\* the merge made to use a provider's data only when the other provider has some too
mergeProviderDataAllOrNothing(activeData, evergreenData, dates, activeStatus, evergreenStatus, at) ==
    LET both == /\ activeData # Null /\ MapSize(activeData) > 0
                /\ evergreenData # Null /\ MapSize(evergreenData) > 0
        sortedDates == Ascending({dates[i] : i \in 1..Len(dates)})
    IN [generated_at |-> at,
        week_start |-> IF sortedDates = <<>> THEN NoDate ELSE sortedDates[1],
        week_end |-> IF sortedDates = <<>> THEN NoDate ELSE sortedDates[Len(sortedDates)],
        venues |-> (IF both THEN transformActiveData(activeData)
                    ELSE [v \in {"active-bond", "active-corinthian"} |-> EmptyVenue(v)])
                   @@ [v \in {"evergreen"} |->
                          IF both THEN transformEvergreenData(evergreenData)
                          ELSE EmptyVenue("evergreen")],
        provider_status |-> [active |-> activeStatus, evergreen |-> evergreenStatus]]

\* `at' is the instant new Date() returns
mergeProviderData(activeData, evergreenData, dates, activeStatus, evergreenStatus, at) ==
    LET activeVenues ==
            IF activeData # Null /\ MapSize(activeData) > 0
            THEN transformActiveData(activeData)
            ELSE [v \in {"active-bond", "active-corinthian"} |-> EmptyVenue(v)]
        evergreenVenue ==
            IF evergreenData # Null /\ MapSize(evergreenData) > 0
            THEN transformEvergreenData(evergreenData)
            ELSE EmptyVenue("evergreen")
        sortedDates == Ascending({dates[i] : i \in 1..Len(dates)})
    IN [generated_at |-> at,
        week_start |-> IF sortedDates = <<>> THEN NoDate ELSE sortedDates[1],
        week_end |-> IF sortedDates = <<>> THEN NoDate ELSE sortedDates[Len(sortedDates)],
        venues |-> activeVenues @@ [v \in {"evergreen"} |-> evergreenVenue],
        provider_status |-> [active |-> activeStatus, evergreen |-> evergreenStatus]]

----------------------------------------------------------------------------
(* Change detector: detectChanges of services/transformer.ts *)

\* Object.keys(current.venues): the venues of a snapshot in the order of VENUES
VenueKeys(snapshot) ==
    LET stored(venueId) == venueId \in DOMAIN snapshot.venues
    IN SelectSeq([i \in 1..Len(VENUES) |-> VENUES[i].id], stored)

\* Object.keys(currentDay.slots): the slot labels of a day in the order of TIME_SLOTS
SlotKeys(day) ==
    LET stored(timeSlot) == timeSlot \in DOMAIN day.slots
    IN SelectSeq(TIME_SLOTS, stored)

SlotChange(venueId, date, timeSlot, currentSlot) ==
    [venueId |-> venueId, date |-> date, timeSlot |-> timeSlot,
     availableCourts |-> IF "available_courts" \in DOMAIN currentSlot
                         THEN currentSlot.available_courts ELSE <<>>]
    @@ (IF "only_premium" \in DOMAIN currentSlot
        THEN [onlyPremium |-> currentSlot.only_premium] ELSE <<>>)

\* the detector made to take a slot the previous day lacks as one that was available
DayChangesAbsentOpen(venueId, date, previousDay, currentDay) ==
    LET keys == SlotKeys(currentDay)
        wasAvailable(l) ==
            IF l \in DOMAIN previousDay.slots THEN previousDay.slots[l].available ELSE TRUE
        opened(l) == ~wasAvailable(l) /\ currentDay.slots[l].available
        picked == SelectSeq(keys, opened)
    IN [i \in 1..Len(picked) |->
          SlotChange(venueId, date, picked[i], currentDay.slots[picked[i]])]

\* the detector made to report every slot whose availability differs
DayChangesEitherWay(venueId, date, previousDay, currentDay) ==
    LET keys == SlotKeys(currentDay)
        wasAvailable(l) ==
            IF l \in DOMAIN previousDay.slots THEN previousDay.slots[l].available ELSE FALSE
        opened(l) == wasAvailable(l) # currentDay.slots[l].available
        picked == SelectSeq(keys, opened)
    IN [i \in 1..Len(picked) |->
          SlotChange(venueId, date, picked[i], currentDay.slots[picked[i]])]

\* the detector made to report every slot that is available now
DayChangesAllOpen(venueId, date, previousDay, currentDay) ==
    LET keys == SlotKeys(currentDay)
        opened(l) == currentDay.slots[l].available
        picked == SelectSeq(keys, opened)
    IN [i \in 1..Len(picked) |->
          SlotChange(venueId, date, picked[i], currentDay.slots[picked[i]])]

\* the changes of one day of one venue, in slot order
DayChanges(venueId, date, previousDay, currentDay) ==
    LET keys == SlotKeys(currentDay)
        wasAvailable(l) ==
            IF l \in DOMAIN previousDay.slots THEN previousDay.slots[l].available ELSE FALSE
        opened(l) == ~wasAvailable(l) /\ currentDay.slots[l].available
        picked == SelectSeq(keys, opened)
    IN [i \in 1..Len(picked) |->
          SlotChange(venueId, date, picked[i], currentDay.slots[picked[i]])]

\* the detector made to take a date the previous snapshot lacks as a day with no slots
VenueChangesNewDates(venueId, previousVenue, currentVenue) ==
    LET ds == Ascending(DOMAIN currentVenue.dates)
        noSlots == [slots |-> [l \in {} |-> [available |-> FALSE]]]
    IN Flatten([i \in 1..Len(ds) |->
                  DayChanges(venueId, ds[i],
                      IF ds[i] \in DOMAIN previousVenue.dates
                      THEN previousVenue.dates[ds[i]] ELSE noSlots,
                      currentVenue.dates[ds[i]])])

\* the changes of one venue, date by date
VenueChanges(venueId, previousVenue, currentVenue) ==
    LET ds == Ascending({d \in DOMAIN currentVenue.dates : d \in DOMAIN previousVenue.dates})
    IN Flatten([i \in 1..Len(ds) |->
                  DayChanges(venueId, ds[i], previousVenue.dates[ds[i]], currentVenue.dates[ds[i]])])

detectChanges(previous, current) ==
    IF previous = Null THEN <<>>
    ELSE LET existed(venueId) == venueId \in DOMAIN previous.venues
             vs == SelectSeq(VenueKeys(current), existed)
         IN Flatten([i \in 1..Len(vs) |->
                       VenueChanges(vs[i], previous.venues[vs[i]], current.venues[vs[i]])])

----------------------------------------------------------------------------
(* Snapshot cache: services/kv-cache.ts (worker) and services/cache.ts (node) *)

VARIABLES
    variant,      \* "worker" or "node": which deployment runs
    now,          \* the clock, in minutes
    data,         \* the stored snapshot (KV key "availability" / cache.data), or Null
    lastRefresh,  \* KV metadata last_refresh / cache.lastRefresh, or NoTime
    alertState,   \* KV key "alert_state" / the AlertService fields
    env,          \* the deployment's configuration: mail and webhook targets
    lastRun,      \* what the most recent refreshAllData invocation did (observation)
    probe         \* a pure function under examination: its arguments and its result

vars == <<variant, now, data, lastRefresh, alertState, env, lastRun, probe>>

\* venueIds.filter over the stored venues; `venueIds' is a sequence, <<>> when not given
FilterVenues(stored, venueIds) ==
    IF stored = Null THEN Null
    ELSE IF Len(venueIds) = 0 THEN stored
    ELSE [stored EXCEPT !.venues =
            [v \in {venueIds[i] : i \in 1..Len(venueIds)} \cap DOMAIN stored.venues |->
                stored.venues[v]]]

\* kv-cache.ts getCachedData(kv, venueIds?)
getCachedData(kv, venueIds) == FilterVenues(kv, venueIds)

\* cache.ts AvailabilityCache.get(venueIds?)
CacheGet(cached, venueIds) == FilterVenues(cached, venueIds)

\* the put made to keep a stored venue where the new snapshot has no dates for it
setCachedDataKeeping(snapshot, at) ==
    [data |-> IF data = Null THEN snapshot
              ELSE [snapshot EXCEPT !.venues =
                      [v \in DOMAIN snapshot.venues |->
                          IF DOMAIN snapshot.venues[v].dates = {} /\ v \in DOMAIN data.venues
                          THEN data.venues[v] ELSE snapshot.venues[v]]],
     lastRefresh |-> at]

\* kv-cache.ts setCachedData: one put of the value with its metadata
setCachedData(snapshot, at) == [data |-> snapshot, lastRefresh |-> at]

\* cache.ts AvailabilityCache.set
CacheSet(snapshot, at) == [data |-> snapshot, lastRefresh |-> at]

\* kv-cache.ts getCacheAge / cache.ts getAge: the age in seconds of the last
\* refresh stamp `stamp', NoTime (null) when nothing was ever stored
getCacheAge(stamp, at) == IF stamp = NoTime THEN NoTime ELSE (at - stamp) * 60

\* the staleness test made to count an age equal to the time to live as stale
isStaleAtThreshold(stamp, at) ==
    IF stamp = NoTime THEN TRUE ELSE at - stamp >= CACHE_TTL_MINUTES

\* kv-cache.ts isStale / cache.ts isStale: past the time to live, or never stored
isStale(stamp, at) == IF stamp = NoTime THEN TRUE ELSE at - stamp > CACHE_TTL_MINUTES

\* kv-cache.ts isTooOldToServe / cache.ts isTooOldToServe: past the stale-serve
\* ceiling, or never stored
isTooOldToServe(stamp, at) ==
    IF stamp = NoTime THEN TRUE ELSE at - stamp > STALE_SERVE_MINUTES

\* kv-cache.ts hasData (the value's metadata is there) / cache.ts hasData (the
\* data field is not null)
hasData(cached, stamp) == IF variant = "worker" THEN stamp # NoTime ELSE cached # Null

\* kv-cache.ts isDateInRange / cache.ts isDateInRange
isDateInRange(cached, date) ==
    IF cached = Null THEN FALSE ELSE date >= cached.week_start /\ date <= cached.week_end

----------------------------------------------------------------------------
(* Alert manager: services/email-alerter.ts (worker) and services/alerter.ts (node) *)

\* how mail is configured: env.EMAIL, env.ALERT_TO and the runtime's EmailMessage
\* (worker); config.alert.enabled with a transporter (node)
WorkerMailConfigs == {"configured", "no_binding", "no_recipient", "no_runtime"}
NodeMailConfigs == {"configured", "disabled"}

\* what the mail transport answers to one send
Transport == {"ok", "throws"}

\* what a delivery attempt can meet: the configuration when mail is not configured,
\* one of the transport's answers when it is
MailAnswers(config) == IF config = "configured" THEN Transport ELSE {config}

\* subject.includes(word); a subject is the sequence of its parts
Includes(subject, word) == \E i \in 1..Len(subject) : subject[i] = word

FailureSubject(provider) ==
    IF provider # "" THEN <<"Provider Failed:", provider>>
    ELSE <<"Refresh Failed:", "All Providers">>

RecoverySubject == <<"Recovered">>

\* the text of a failure alert, by its parts; `stamp' is the last refresh stamp of
\* the cache at the moment the body is composed
FailureBody(provider, error, count, stamp, at) ==
    [provider |-> IF provider # "" THEN provider ELSE "All",
     error |-> error.message,
     consecutiveFailures |-> count,
     cacheStatus |-> IF isStale(stamp, at) THEN "STALE" ELSE "OK",
     cacheAge |-> getCacheAge(stamp, at)]

RecoveryBody(count) == [recoveredAfter |-> count]

\* email-alerter.ts getAlertState: the stored state (the default when none is stored)
InitialAlertState == [consecutiveFailures |-> 0, lastAlertTime |-> NoTime]

\* the cooldown test with the elapsed time left in milliseconds against minutes
isInCooldownWrongUnit(state, cooldownMinutes, at) ==
    IF state.lastAlertTime = NoTime THEN FALSE
    ELSE (at - state.lastAlertTime) * 60 * 1000 < cooldownMinutes

isInCooldown(state, cooldownMinutes, at) ==
    IF state.lastAlertTime = NoTime THEN FALSE
    ELSE at - state.lastAlertTime < cooldownMinutes

\* sendAlert without the exemption of recovery alerts from the cooldown
sendAlertNoBypass(kv, subject, body, mail, at) ==
    IF isInCooldown(kv, ALERT_COOLDOWN_MINUTES, at)
    THEN [state |-> kv, outcome |-> "cooldown", threw |-> FALSE]
    ELSE IF mail \in {"no_binding", "no_recipient", "no_runtime"}
    THEN [state |-> kv, outcome |-> mail, threw |-> FALSE]
    ELSE IF mail = "throws" THEN [state |-> kv, outcome |-> "failed", threw |-> FALSE]
    ELSE [state |-> [kv EXCEPT !.lastAlertTime = at], outcome |-> "sent", threw |-> FALSE]

\* sendAlert without the try/catch around the delivery
sendAlertUncaught(kv, subject, body, mail, at) ==
    IF isInCooldown(kv, ALERT_COOLDOWN_MINUTES, at) /\ ~Includes(subject, "Recovered")
    THEN [state |-> kv, outcome |-> "cooldown", threw |-> FALSE]
    ELSE IF mail \in {"no_binding", "no_recipient", "no_runtime"}
    THEN [state |-> kv, outcome |-> mail, threw |-> FALSE]
    ELSE IF mail = "throws" THEN [state |-> kv, outcome |-> "failed", threw |-> TRUE]
    ELSE [state |-> [kv EXCEPT !.lastAlertTime = at], outcome |-> "sent", threw |-> FALSE]

\* sendAlert made to write lastAlertTime before the delivery is attempted
sendAlertStampFirst(kv, subject, body, mail, at) ==
    IF isInCooldown(kv, ALERT_COOLDOWN_MINUTES, at) /\ ~Includes(subject, "Recovered")
    THEN [state |-> kv, outcome |-> "cooldown", threw |-> FALSE]
    ELSE IF mail \in {"no_binding", "no_recipient", "no_runtime"}
    THEN [state |-> kv, outcome |-> mail, threw |-> FALSE]
    ELSE [state |-> [kv EXCEPT !.lastAlertTime = at],
          outcome |-> IF mail = "throws" THEN "failed" ELSE "sent", threw |-> FALSE]

\* email-alerter.ts sendAlert: the state left in KV, what became of the alert, and
\* whether the call threw (the delivery runs inside try/catch, so it never does)
sendAlert(kv, subject, body, mail, at) ==
    LET state == kv
    IN IF isInCooldown(state, ALERT_COOLDOWN_MINUTES, at) /\ ~Includes(subject, "Recovered")
       THEN [state |-> kv, outcome |-> "cooldown", threw |-> FALSE]
       ELSE IF mail = "no_binding"
       THEN [state |-> kv, outcome |-> "no_binding", threw |-> FALSE]
       ELSE IF mail = "no_recipient"
       THEN [state |-> kv, outcome |-> "no_recipient", threw |-> FALSE]
       ELSE IF mail = "no_runtime"
       THEN [state |-> kv, outcome |-> "no_runtime", threw |-> FALSE]
       ELSE IF mail = "throws" THEN [state |-> kv, outcome |-> "failed", threw |-> FALSE]
       ELSE [state |-> [state EXCEPT !.lastAlertTime = at], outcome |-> "sent",
             threw |-> FALSE]

Attempt(subject, body, sent) == [subject |-> subject, body |-> body, outcome |-> sent.outcome]

\* onRefreshFailure made to count a failure only when its alert is not in cooldown
onRefreshFailureQuiet(kv, error, provider, stamp, mail, at) ==
    LET newState == IF isInCooldown(kv, ALERT_COOLDOWN_MINUTES, at) THEN kv
                    ELSE [kv EXCEPT !.consecutiveFailures = kv.consecutiveFailures + 1]
        subject == FailureSubject(provider)
        body == FailureBody(provider, error, newState.consecutiveFailures, stamp, at)
        sent == sendAlert(newState, subject, body, mail, at)
    IN [state |-> sent.state, attempts |-> <<Attempt(subject, body, sent)>>,
        threw |-> sent.threw]

\* email-alerter.ts onRefreshFailure; provider "" when none is given; `stamp' is the
\* cache's last refresh stamp, which the body reports the age of
onRefreshFailure(kv, error, provider, stamp, mail, at) ==
    LET state == kv
        newState == [state EXCEPT !.consecutiveFailures = state.consecutiveFailures + 1]
        subject == FailureSubject(provider)
        body == FailureBody(provider, error, newState.consecutiveFailures, stamp, at)
        sent == sendAlert(newState, subject, body, mail, at)
    IN [state |-> sent.state, attempts |-> <<Attempt(subject, body, sent)>>,
        threw |-> sent.threw]

\* onRecovery made to send the alert and leave the counter as it is
onRecoveryKeepingCount(kv, mail, at) ==
    IF kv.consecutiveFailures > 0
    THEN LET body == RecoveryBody(kv.consecutiveFailures)
             sent == sendAlert(kv, RecoverySubject, body, mail, at)
         IN [state |-> sent.state, attempts |-> <<Attempt(RecoverySubject, body, sent)>>,
             threw |-> sent.threw]
    ELSE [state |-> kv, attempts |-> <<>>, threw |-> FALSE]

\* email-alerter.ts onRecovery: the reset is written from the state read before the send
onRecovery(kv, mail, at) ==
    LET state == kv
    IN IF state.consecutiveFailures > 0
       THEN LET body == RecoveryBody(state.consecutiveFailures)
                sent == sendAlert(kv, RecoverySubject, body, mail, at)
            IN [state |-> IF sent.threw THEN sent.state
                          ELSE [state EXCEPT !.consecutiveFailures = 0],
                attempts |-> <<Attempt(RecoverySubject, body, sent)>>,
                threw |-> sent.threw]
       ELSE [state |-> kv, attempts |-> <<>>, threw |-> FALSE]

\* alerter.ts AlertService.sendAlert
AlertServiceSendAlert(self, subject, body, mail, at) ==
    IF mail = "disabled" THEN [state |-> self, outcome |-> "disabled", threw |-> FALSE]
    ELSE IF isInCooldown(self, ALERT_COOLDOWN_MINUTES, at) /\ ~Includes(subject, "Recovered")
    THEN [state |-> self, outcome |-> "cooldown", threw |-> FALSE]
    ELSE IF mail = "throws" THEN [state |-> self, outcome |-> "failed", threw |-> FALSE]
    ELSE [state |-> [self EXCEPT !.lastAlertTime = at], outcome |-> "sent", threw |-> FALSE]

\* alerter.ts AlertService.onRefreshFailure
AlertServiceOnRefreshFailure(self, error, provider, stamp, mail, at) ==
    LET bumped == [self EXCEPT !.consecutiveFailures = self.consecutiveFailures + 1]
        subject == FailureSubject(provider)
        body == FailureBody(provider, error, bumped.consecutiveFailures, stamp, at)
        sent == AlertServiceSendAlert(bumped, subject, body, mail, at)
    IN [state |-> sent.state, attempts |-> <<Attempt(subject, body, sent)>>,
        threw |-> sent.threw]

\* alerter.ts AlertService.onRecovery
AlertServiceOnRecovery(self, mail, at) ==
    IF self.consecutiveFailures > 0
    THEN LET body == RecoveryBody(self.consecutiveFailures)
             sent == AlertServiceSendAlert(self, RecoverySubject, body, mail, at)
         IN [state |-> IF sent.threw THEN sent.state
                       ELSE [sent.state EXCEPT !.consecutiveFailures = 0],
             attempts |-> <<Attempt(RecoverySubject, body, sent)>>,
             threw |-> sent.threw]
    ELSE [state |-> self, attempts |-> <<>>, threw |-> FALSE]

----------------------------------------------------------------------------
(* Webhook dispatcher: services/webhook.ts *)

WebhookNames == <<"oi-my-court", "is-collin-available">>

\* getWebhookTargets(env): the configured targets, in the order of the code
getWebhookTargets(configured) ==
    LET set(name) == name \in configured
    IN SelectSeq(WebhookNames, set)

\* notifySlotChanges: the POSTs made, one per target, each carrying all the changes
notifySlotChanges(configured, changes) ==
    IF Len(changes) = 0 THEN <<>>
    ELSE LET targets == getWebhookTargets(configured)
         IN [i \in 1..Len(targets) |-> [target |-> targets[i], slots |-> changes]]

----------------------------------------------------------------------------
(* What the providers can answer *)

\* getNextDays(count): the requested dates; the clock of a behaviour stays within one day
getNextDays(count) == [i \in 1..count |-> i]

CourtName(n) == <<67, 111, 117, 114, 116, 32>> \o n
Digits1 == <<49>>
Digits2 == <<50>>
Digits10 == <<49, 48>>

ActiveCourt(name, timetable) == [name |-> name, timetable |-> timetable]
Timetable(start, status) == [start_time |-> start, status |-> status]

\* response.data of the anonymous provider for one date: venues by the provider's ids
ActiveDaySamples ==
    { [k \in {"1", "9"} |->
          [courts |-> <<ActiveCourt(CourtName(Digits1),
                           <<Timetable("06:00", "Available"), Timetable("07:00", "Booked")>>)>>]],
      [k \in {"1", "2"} |->
          IF k = "1"
          THEN [courts |-> <<ActiveCourt(CourtName(Digits1), <<Timetable("06:00", "Booked")>>)>>]
          ELSE [courts |-> <<ActiveCourt(CourtName(Digits2), <<Timetable("06:00", "Available")>>),
                             ActiveCourt(CourtName(Digits10), <<Timetable("06:00", "Available")>>)>>]] }

EvergreenCourt(name, unavailable, booked, booking) ==
    [name |-> name, unavailable |-> unavailable, booked |-> booked, booking |-> booking]

\* data.data of the authenticated provider for one date
EvergreenDaySamples ==
    { [items |-> << [time |-> "06:00",
                     childer |-> << EvergreenCourt(BadmintonMark \o <<32, 49>>, 0, 0, 0),
                                    EvergreenCourt(TableTennisMark \o <<32, 49>>, 0, 0, 0),
                                    EvergreenCourt(PremiumName, 0, 1, 0) >>] >>],
      [items |-> << [time |-> "06:00",
                     childer |-> << EvergreenCourt(BadmintonMark \o <<32, 49>>, 0, 1, 0),
                                    EvergreenCourt(PremiumName, 0, 0, 0) >>] >>],
      [items |-> << [time |-> "06:00",
                     childer |-> << EvergreenCourt(BadmintonMark \o <<32, 49>>, 1, 0, 0),
                                    EvergreenCourt(TableTennisMark \o <<32, 49>>, 0, 0, 0) >>] >>] }

\* all the maps from some of the requested dates to a sample
SampleMaps(dates, samples) ==
    UNION {[D -> samples] : D \in SUBSET {dates[i] : i \in 1..Len(dates)}}

Fulfilled(value) == [status |-> "fulfilled", value |-> value]
Rejected(message) == [status |-> "rejected", reason |-> [message |-> message]]

\* the dates every refresh of a behaviour asks for
Dates == getNextDays(FetchDaysAhead)

\* fetchActiveData catches every per-date error, so its promise is always fulfilled
ActiveResults == {Fulfilled(MapOf(m)) : m \in SampleMaps(Dates, ActiveDaySamples)}

\* fetchEvergreenData is rejected when the login throws
EvergreenResults ==
    {Fulfilled(MapOf(m)) : m \in SampleMaps(Dates, EvergreenDaySamples)}
    \cup {Rejected("Evergreen login failed with status 500")}

\* env.WEBHOOK_*: which webhook targets are configured
WebhookConfigs == {{}, {"oi-my-court", "is-collin-available"}}

----------------------------------------------------------------------------
(* Refresh orchestrator: services/refresh.ts (worker), services/scheduler.ts (node) *)

\* the processing made to take an empty map for a success
ProcessResultLenient(result, at, name) ==
    IF result.status = "fulfilled"
    THEN [data |-> result.value, status |-> [status |-> "ok", last_fetch |-> at], error |-> Null]
    ELSE [data |-> Null,
          status |-> [status |-> "error", last_fetch |-> at, error |-> result.reason.message],
          error |-> result.reason]

\* "Process Active result" / "Process Evergreen result"
ProcessResult(result, at, name) ==
    IF result.status = "fulfilled"
    THEN IF MapSize(result.value) = 0
         THEN [data |-> result.value,
               status |-> [status |-> "error", last_fetch |-> at, error |-> "No data returned"],
               error |-> [message |-> name \o " provider returned no data"]]
         ELSE [data |-> result.value,
               status |-> [status |-> "ok", last_fetch |-> at],
               error |-> Null]
    ELSE [data |-> Null,
          status |-> [status |-> "error", last_fetch |-> at, error |-> result.reason.message],
          error |-> result.reason]

BothFailedError(activeError, evergreenError) ==
    [message |-> "Both providers failed. Active: " \o activeError.message
                 \o ", Evergreen: " \o evergreenError.message]

\* "Check for failures and send alerts", worker
WorkerAlerts(kv, active, evergreen, stamp, mail, at) ==
    IF active.error # Null /\ evergreen.error # Null
    THEN onRefreshFailure(kv, BothFailedError(active.error, evergreen.error), "",
                          stamp, mail, at)
    ELSE IF active.error # Null
    THEN onRefreshFailure(kv, active.error, "Active", stamp, mail, at)
    ELSE IF evergreen.error # Null
    THEN onRefreshFailure(kv, evergreen.error, "Evergreen", stamp, mail, at)
    ELSE onRecovery(kv, mail, at)

\* "Check for failures and send alerts", node
NodeAlerts(self, active, evergreen, stamp, mail, at) ==
    IF active.error # Null /\ evergreen.error # Null
    THEN AlertServiceOnRefreshFailure(
             self, BothFailedError(active.error, evergreen.error), "", stamp, mail, at)
    ELSE IF active.error # Null
    THEN AlertServiceOnRefreshFailure(self, active.error, "Active", stamp, mail, at)
    ELSE IF evergreen.error # Null
    THEN AlertServiceOnRefreshFailure(self, evergreen.error, "Evergreen", stamp, mail, at)
    ELSE AlertServiceOnRecovery(self, mail, at)

\* the guard of the cache update left out
GotSomeDataAlways(active, evergreen) == TRUE

\* "Only update cache if we got at least some data"
GotSomeData(active, evergreen) ==
    \/ (active.data # Null /\ MapSize(active.data) > 0)
    \/ (evergreen.data # Null /\ MapSize(evergreen.data) > 0)

\* what a provider's promise settled to, as the run's record keeps it: whether it
\* was fulfilled, the rejection's message, the dates of the returned map and, for
\* the anonymous provider, the provider's venue ids each date came with
ActiveAnswer(result) ==
    IF result.status = "fulfilled"
    THEN [fulfilled |-> TRUE, reason |-> "", dates |-> DOMAIN result.value.entries,
          venues |-> [d \in DOMAIN result.value.entries |-> DOMAIN result.value.entries[d]]]
    ELSE [fulfilled |-> FALSE, reason |-> result.reason.message, dates |-> {}, venues |-> <<>>]

EvergreenAnswer(result) ==
    IF result.status = "fulfilled"
    THEN [fulfilled |-> TRUE, reason |-> "", dates |-> DOMAIN result.value.entries]
    ELSE [fulfilled |-> FALSE, reason |-> result.reason.message, dates |-> {}]

NoAnswer == [fulfilled |-> FALSE, reason |-> "", dates |-> {}]

\* the steps of one refreshAllData invocation of the worker, in the order the code
\* takes them, with the alert step moved to the end
WorkerStepsAlertLast(got, changes, threw) ==
    <<"fetch">>
    \o (IF got
        THEN <<"read", "merge", "detect">>
             \o (IF Len(changes) > 0 THEN <<"webhook">> ELSE <<>>) \o <<"write">>
        ELSE <<>>)
    \o <<"alert">>

\* the steps of one refreshAllData invocation of the worker, in the order the code
\* takes them: Promise.allSettled of the two fetches, the alert manager, then,
\* with some data, the read of the cache, the merge, the detection, the webhooks
\* when there are changes, and the write; an alert step that throws ends the run
WorkerSteps(got, changes, threw) ==
    <<"fetch", "alert">>
    \o (IF got /\ ~threw
        THEN <<"read", "merge", "detect">>
             \o (IF Len(changes) > 0 THEN <<"webhook">> ELSE <<>>) \o <<"write">>
        ELSE <<>>)

\* the same for the node deployment, which neither detects changes nor posts
NodeSteps(got, threw) ==
    <<"fetch", "alert">> \o (IF got /\ ~threw THEN <<"merge", "write">> ELSE <<>>)

\* the record of a refreshAllData invocation: when it ran, what the providers
\* answered, the alerts it attempted, the changes it detected, the webhook POSTs
\* it made, whether it wrote the cache and the snapshot it had merged; the steps
\* it took, in order, and whether it ended by throwing to its caller; with the
\* instant of the latest delivered failure alert so far
NoRun ==
    [ran |-> FALSE, at |-> NoTime, active |-> NoAnswer, evergreen |-> NoAnswer,
     attempts |-> <<>>, changes |-> <<>>, posts |-> <<>>, wrote |-> FALSE,
     candidate |-> Null, steps |-> <<>>, raised |-> FALSE, failureAlertAt |-> NoTime]

RunRecord(answers, attempts, changes, posts, wrote, mergedData, steps, raised) ==
    [ran |-> TRUE, at |-> now, active |-> answers.active, evergreen |-> answers.evergreen,
     attempts |-> attempts, changes |-> changes, posts |-> posts, wrote |-> wrote,
     candidate |-> IF wrote THEN mergedData ELSE Null,
     steps |-> steps, raised |-> raised,
     failureAlertAt |->
        IF \E i \in 1..Len(attempts) :
              attempts[i].subject # RecoverySubject /\ attempts[i].outcome = "sent"
        THEN now ELSE lastRun.failureAlertAt]

\* the counter of the code is unbounded; the model stops counting at MaxFailures
FailureRoom(active, evergreen) ==
    (active.error # Null \/ evergreen.error # Null)
        => alertState.consecutiveFailures < MaxFailures

\* the change detection made against the snapshot this refresh is about to store
detectAgainstNew(previous, mergedData) == detectChanges(mergedData, mergedData)

\* refresh.ts "Get previous data for change detection" and "Detect slots that
\* became available": the detection against the snapshot read from the cache
detectAgainstCache(previous, mergedData) == detectChanges(previous, mergedData)

\* refresh.ts from "Check for failures and send alerts" on, with the alert manager's
\* answer `alerts': the cache update, reached when the alert step returned normally
WorkerEffects(answers, alerts, got, mergedData, changes) ==
    LET reached == got /\ ~alerts.threw
        found == IF reached THEN changes ELSE <<>>
    IN /\ alertState' = alerts.state
       /\ IF reached
          THEN LET put == setCachedData(mergedData, now)
               IN data' = put.data /\ lastRefresh' = put.lastRefresh
          ELSE UNCHANGED <<data, lastRefresh>>
       /\ lastRun' = RunRecord(answers, alerts.attempts, found,
                               notifySlotChanges(env.webhooks, found), reached, mergedData,
                               WorkerSteps(got, changes, alerts.threw), alerts.threw)

\* refresh.ts "Only update cache if we got at least some data"
WorkerCacheUpdate(answers, active, evergreen, got, mergedData, changes) ==
    \E mail \in MailAnswers(env.mail) :
        WorkerEffects(answers,
                      WorkerAlerts(alertState, active, evergreen, lastRefresh, mail, now),
                      got, mergedData, changes)

WorkerMerged(answers, active, evergreen, got, mergedData) ==
    WorkerCacheUpdate(answers, active, evergreen, got, mergedData,
                      IF got THEN detectAgainstCache(getCachedData(data, <<>>), mergedData)
                      ELSE <<>>)

WorkerProcessed(answers, active, evergreen) ==
    /\ FailureRoom(active, evergreen)
    /\ WorkerMerged(answers, active, evergreen, GotSomeData(active, evergreen),
                    mergeProviderData(active.data, evergreen.data, Dates,
                                      active.status, evergreen.status, now))

\* services/refresh.ts refreshAllData(env), one whole invocation
RefreshWorker ==
    /\ variant = "worker"
    /\ \E activeResult \in ActiveResults, evergreenResult \in EvergreenResults :
        WorkerProcessed([active |-> ActiveAnswer(activeResult),
                         evergreen |-> EvergreenAnswer(evergreenResult)],
                        ProcessResult(activeResult, now, "Active"),
                        ProcessResult(evergreenResult, now, "Evergreen"))
    /\ UNCHANGED <<variant, now, env, probe>>

\* scheduler.ts from "Check for failures and send alerts" on, with the alert
\* service's answer `alerts'
NodeEffects(answers, alerts, got, mergedData) ==
    LET reached == got /\ ~alerts.threw
    IN /\ alertState' = alerts.state
       /\ IF reached
          THEN LET put == CacheSet(mergedData, now)
               IN data' = put.data /\ lastRefresh' = put.lastRefresh
          ELSE UNCHANGED <<data, lastRefresh>>
       /\ lastRun' = RunRecord(answers, alerts.attempts, <<>>, <<>>, reached, mergedData,
                               NodeSteps(got, alerts.threw), alerts.threw)

\* scheduler.ts "Only update cache if we got at least some data"
NodeCacheUpdate(answers, active, evergreen, got, mergedData) ==
    \E mail \in MailAnswers(env.mail) :
        NodeEffects(answers,
                    NodeAlerts(alertState, active, evergreen, lastRefresh, mail, now),
                    got, mergedData)

NodeProcessed(answers, active, evergreen) ==
    /\ FailureRoom(active, evergreen)
    /\ NodeCacheUpdate(answers, active, evergreen, GotSomeData(active, evergreen),
                       mergeProviderData(active.data, evergreen.data, Dates,
                                         active.status, evergreen.status, now))

\* services/scheduler.ts refreshAllData(), one whole invocation
RefreshNode ==
    /\ variant = "node"
    /\ \E activeResult \in ActiveResults, evergreenResult \in EvergreenResults :
        NodeProcessed([active |-> ActiveAnswer(activeResult),
                       evergreen |-> EvergreenAnswer(evergreenResult)],
                      ProcessResult(activeResult, now, "Active"),
                      ProcessResult(evergreenResult, now, "Evergreen"))
    /\ UNCHANGED <<variant, now, env, probe>>

\* time passes
Tick ==
    /\ now + TickMinutes <= MaxTicks * TickMinutes
    /\ now' = now + TickMinutes
    /\ UNCHANGED <<variant, data, lastRefresh, alertState, env, lastRun, probe>>

\* no pure function is under examination
NoProbe == [fn |-> "none"]

Init ==
    /\ variant \in {"worker", "node"}
    /\ env \in IF variant = "worker"
               THEN [mail : WorkerMailConfigs, webhooks : WebhookConfigs]
               ELSE [mail : NodeMailConfigs, webhooks : {{}}]
    /\ now = 0
    /\ data = Null
    /\ lastRefresh = NoTime
    /\ alertState = InitialAlertState
    /\ lastRun = NoRun
    /\ probe = NoProbe

Next == Tick \/ RefreshWorker \/ RefreshNode

Spec == Init /\ [][Next]_vars

----------------------------------------------------------------------------
(* The change detector on its own: detectChanges applied to pairs of snapshots *)

DetectDates == {1, 2}

OpenSlot == [available |-> TRUE, available_courts |-> <<Digits1>>]
PremiumSlot == [available |-> TRUE, only_premium |-> TRUE, available_courts |-> <<<<55>>>>]
ClosedSlot == [available |-> FALSE]

\* a day of a snapshot: some of the slot labels, open or closed
DetectDays ==
    { [slots |-> [l \in {} |-> ClosedSlot]],
      [slots |-> [l \in {"06:00"} |-> OpenSlot]],
      [slots |-> [l \in {"06:00"} |-> ClosedSlot]],
      [slots |-> [l \in {"06:00", "07:00"} |-> IF l = "06:00" THEN OpenSlot ELSE ClosedSlot]],
      [slots |-> [l \in {"06:00", "07:00"} |-> IF l = "06:00" THEN ClosedSlot ELSE PremiumSlot]] }

\* a venue of a snapshot: some of the dates, each with a day
DetectVenues ==
    { [dates |-> m] :
        m \in UNION { [D -> DetectDays] : D \in SUBSET {1} }
              \cup { [d \in DetectDates |-> IF d = 1 THEN day ELSE other] :
                        day \in DetectDays,
                        other \in { [slots |-> [l \in {"06:00"} |-> OpenSlot]],
                                    [slots |-> [l \in {"06:00"} |-> ClosedSlot]] } } }

\* snapshots with some of the venues
DetectSnapshots ==
    { [venues |-> [v \in V |-> IF v = "active-bond" THEN bond ELSE other]] :
        V \in SUBSET {"active-bond", "evergreen"},
        bond \in DetectVenues,
        other \in { [dates |-> [d \in {1} |-> [slots |-> [l \in {"07:00"} |-> PremiumSlot]]]],
                    [dates |-> [d \in {1} |-> [slots |-> [l \in {"07:00"} |-> ClosedSlot]]]] } }

DetectInit ==
    /\ variant = "worker"
    /\ env = [mail |-> "configured", webhooks |-> {}]
    /\ now = 0
    /\ data = Null
    /\ lastRefresh = NoTime
    /\ alertState = InitialAlertState
    /\ lastRun = NoRun
    /\ probe \in { [fn |-> "detectChanges", previous |-> p, current |-> c,
                    applied |-> FALSE, result |-> <<>>] :
                   p \in DetectSnapshots \cup {Null}, c \in DetectSnapshots }

\* transformer.ts detectChanges(previous, current), one call
DetectApply ==
    /\ probe.fn = "detectChanges"
    /\ ~probe.applied
    /\ probe' = [probe EXCEPT !.applied = TRUE,
                              !.result = detectChanges(probe.previous, probe.current)]
    /\ UNCHANGED <<variant, now, data, lastRefresh, alertState, env, lastRun>>

DetectNext == DetectApply

SpecDetect == DetectInit /\ [][DetectNext]_vars

----------------------------------------------------------------------------
(* Properties *)

\* the instants a behaviour's clock can show
Instants == {i * TickMinutes : i \in 0..MaxTicks}

\* every snapshot some refresh can merge and write: one per pair of provider answers
\* with some data and per instant
Candidates ==
    { mergeProviderData(ProcessResult(q[1], t, "Active").data,
                        ProcessResult(q[2], t, "Evergreen").data, Dates,
                        ProcessResult(q[1], t, "Active").status,
                        ProcessResult(q[2], t, "Evergreen").status, t) :
        q \in {r \in ActiveResults \X EvergreenResults :
                  GotSomeData(ProcessResult(r[1], 0, "Active"),
                              ProcessResult(r[2], 0, "Evergreen"))},
        t \in Instants }

\* the provider yielded no date: it was rejected or returned an empty map
YieldedNothing(answer) == answer.dates = {}

\* the run was one in which at least one provider failed
RunFailed(run) == run.ran /\ (YieldedNothing(run.active) \/ YieldedNothing(run.evergreen))

\* the run was one in which both providers succeeded
RunSucceeded(run) == run.ran /\ ~YieldedNothing(run.active) /\ ~YieldedNothing(run.evergreen)

\* the message of the error a provider's failure is reported with
ErrorMessageOf(answer, name) ==
    IF answer.fulfilled THEN name \o " provider returned no data" ELSE answer.reason

\* C1: a refresh in which both providers yield zero dates (each returns an empty
\* map or is rejected) leaves the stored snapshot and its last-refresh stamp
\* exactly as they were: it writes nothing to the cache
C1_NoWriteWithoutData ==
    [][(now' = now /\ lastRun'.ran
        /\ YieldedNothing(lastRun'.active) /\ YieldedNothing(lastRun'.evergreen))
       => (data' = data /\ lastRefresh' = lastRefresh /\ ~lastRun'.wrote)]_vars

C1_Witness ==
    /\ lastRun.ran /\ YieldedNothing(lastRun.active) /\ YieldedNothing(lastRun.evergreen)
    /\ ~lastRun.evergreen.fulfilled
    /\ data # Null /\ lastRefresh < lastRun.at

\* C2: after a refresh has set snapshot B, a get with no filter returns exactly B;
\* and in every state the cache holds nothing or one whole snapshot that a single
\* refresh merged, stamped with the instant of that refresh
C2_ReplacementIsTotal ==
    /\ lastRun.wrote =>
          /\ variant = "worker" => getCachedData(data, <<>>) = lastRun.candidate
          /\ variant = "node" => CacheGet(data, <<>>) = lastRun.candidate
          /\ lastRefresh = lastRun.at
    /\ IF data = Null THEN lastRefresh = NoTime
       ELSE data \in Candidates /\ data.generated_at = lastRefresh

C2_Witness ==
    /\ lastRun.wrote /\ lastRun.changes # <<>>
    /\ DOMAIN data.venues["evergreen"].dates = {}
    /\ data = lastRun.candidate

\* provider A yielded at least one date and provider B returned an empty map
ActiveOnly(run) ==
    run.ran /\ ~YieldedNothing(run.active)
    /\ run.evergreen.fulfilled /\ YieldedNothing(run.evergreen)
EvergreenOnly(run) ==
    run.ran /\ ~YieldedNothing(run.evergreen)
    /\ run.active.fulfilled /\ YieldedNothing(run.active)

\* the stored snapshot is the one the latest run merged, stamped with its instant
Replaced ==
    /\ lastRun.wrote /\ data = lastRun.candidate
    /\ data.generated_at = lastRun.at /\ lastRefresh = lastRun.at

\* the dates the stored snapshot has for a venue
StoredDates(venueId) == DOMAIN data.venues[venueId].dates

\* what C3 says but for the dates of A's venues: the replacement, the empty dates
\* of B's venues, the two statuses and the one alert naming B
C3_Rest(bVenues, aStatus, bStatus, bName) ==
    /\ Replaced
    /\ \A v \in bVenues : StoredDates(v) = {}
    /\ aStatus.status = "ok" /\ bStatus.status = "error"
    /\ Len(lastRun.attempts) = 1
    /\ lastRun.attempts[1].subject = <<"Provider Failed:", bName>>

\* C3 as the specification states it: every venue of A has a non-empty dates map
C3_Original ==
    /\ ActiveOnly(lastRun) =>
          /\ C3_Rest({"evergreen"}, data.provider_status.active,
                     data.provider_status.evergreen, "Evergreen")
          /\ \A v \in {"active-bond", "active-corinthian"} : StoredDates(v) # {}
    /\ EvergreenOnly(lastRun) =>
          /\ C3_Rest({"active-bond", "active-corinthian"}, data.provider_status.evergreen,
                     data.provider_status.active, "Active")
          /\ StoredDates("evergreen") # {}

\* C3: in a refresh where provider A returns at least one date and provider B an
\* empty map, the snapshot is replaced; a venue of A has exactly the returned
\* dates for which A's answer holds data of that venue (every returned date for
\* the authenticated provider; for the anonymous provider the dates whose answer
\* names the venue, so a venue the answer never names has no dates); the venues
\* of B have no dates; provider_status is 'ok' for A and 'error' for B; and
\* exactly one failure alert is attempted, its subject naming B
C3_PartialFailure ==
    /\ ActiveOnly(lastRun) =>
          /\ C3_Rest({"evergreen"}, data.provider_status.active,
                     data.provider_status.evergreen, "Evergreen")
          /\ StoredDates("active-bond") =
                {d \in lastRun.active.dates : "1" \in lastRun.active.venues[d]}
          /\ StoredDates("active-corinthian") =
                {d \in lastRun.active.dates : "2" \in lastRun.active.venues[d]}
    /\ EvergreenOnly(lastRun) =>
          /\ C3_Rest({"active-bond", "active-corinthian"}, data.provider_status.evergreen,
                     data.provider_status.active, "Active")
          /\ StoredDates("evergreen") = lastRun.evergreen.dates
          /\ StoredDates("evergreen") # {}

C3_Witness ==
    /\ ActiveOnly(lastRun) /\ Replaced
    /\ StoredDates("active-bond") # {} /\ StoredDates("active-corinthian") = {}
    /\ lastRun.attempts[1].subject = <<"Provider Failed:", "Evergreen">>

\* the entries of a detector result that are for one (venue, date, slot)
ChangesFor(result, v, d, l) ==
    {i \in 1..Len(result) :
        result[i].venueId = v /\ result[i].date = d /\ result[i].timeSlot = l}

\* the venue is in both snapshots, the date is in both for that venue, the slot
\* was absent or unavailable and is available now
Opened(previous, current, v, d, l) ==
    /\ v \in DOMAIN previous.venues /\ v \in DOMAIN current.venues
    /\ d \in DOMAIN previous.venues[v].dates /\ d \in DOMAIN current.venues[v].dates
    /\ \/ l \notin DOMAIN previous.venues[v].dates[d].slots
       \/ ~previous.venues[v].dates[d].slots[l].available
    /\ l \in DOMAIN current.venues[v].dates[d].slots
    /\ current.venues[v].dates[d].slots[l].available

DetectApplied == probe.fn = "detectChanges" /\ probe.applied

\* C4: with a previous snapshot, detectChanges returns a SlotChange for a (venue,
\* date, slot) exactly when the venue is in both snapshots, the date is in both for
\* that venue, the previous slot is absent or unavailable and the current slot is
\* available; and it returns exactly one SlotChange for each such triple
C4_ChangeIffOpened ==
    (DetectApplied /\ probe.previous # Null) =>
        /\ \A v \in VenueIds, d \in DetectDates, l \in SlotLabels :
              Cardinality(ChangesFor(probe.result, v, d, l)) =
                 IF Opened(probe.previous, probe.current, v, d, l) THEN 1 ELSE 0
        /\ \A i \in 1..Len(probe.result) :
              /\ probe.result[i].venueId \in VenueIds
              /\ probe.result[i].date \in DetectDates
              /\ probe.result[i].timeSlot \in SlotLabels

C4_Witness ==
    /\ DetectApplied /\ probe.previous # Null /\ Len(probe.result) = 2
    /\ \E v \in VenueIds, d \in DetectDates, l \in SlotLabels :
          /\ Opened(probe.previous, probe.current, v, d, l)
          /\ l \notin DOMAIN probe.previous.venues[v].dates[d].slots
    /\ \E v \in VenueIds, d \in DetectDates, l \in SlotLabels :
          /\ Opened(probe.current, probe.previous, v, d, l)
          /\ l \in DOMAIN probe.current.venues[v].dates[d].slots

\* the slot a SlotChange is for is available in the snapshot
SlotIsOpen(snapshot, change) ==
    snapshot.venues[change.venueId].dates[change.date].slots[change.timeSlot].available

\* C5: whatever refreshes have run, every SlotChange the latest refresh produced,
\* and every SlotChange in a webhook POST it made, is for a slot that is available
\* in the snapshot that refresh merged: a slot that is unavailable there, one that
\* went from available to unavailable included, is never reported
C5_OnlyAvailableReported ==
    /\ \A i \in 1..Len(lastRun.changes) : SlotIsOpen(lastRun.candidate, lastRun.changes[i])
    /\ \A j \in 1..Len(lastRun.posts) :
          /\ lastRun.posts[j].slots = lastRun.changes
          /\ \A i \in 1..Len(lastRun.posts[j].slots) :
                SlotIsOpen(lastRun.candidate, lastRun.posts[j].slots[i])

C5_Witness ==
    /\ Len(lastRun.posts) = 2 /\ Len(lastRun.changes) > 0
    /\ \E v \in VenueIds : \E d \in StoredDates(v) :
          /\ ChangesFor(lastRun.changes, v, d, "06:00") = {}
          /\ ~lastRun.candidate.venues[v].dates[d].slots["06:00"].available
          /\ \E i \in 1..Len(lastRun.changes) : lastRun.changes[i].venueId # v

\* C6: detectChanges returns an empty list when there is no previous snapshot; and
\* every SlotChange it returns is for a venue the previous snapshot has and a date
\* the previous snapshot has for that venue, whatever is available now
C6_NothingWithoutPrevious ==
    DetectApplied =>
        IF probe.previous = Null THEN probe.result = <<>>
        ELSE \A i \in 1..Len(probe.result) :
                /\ probe.result[i].venueId \in DOMAIN probe.previous.venues
                /\ probe.result[i].date \in
                      DOMAIN probe.previous.venues[probe.result[i].venueId].dates

C6_Witness ==
    /\ DetectApplied /\ probe.previous # Null
    /\ "evergreen" \in DOMAIN probe.current.venues
    /\ "evergreen" \notin DOMAIN probe.previous.venues
    /\ probe.current.venues["evergreen"].dates[1].slots["07:00"].available
    /\ "active-bond" \in DOMAIN probe.current.venues
    /\ "active-bond" \in DOMAIN probe.previous.venues
    /\ DOMAIN probe.previous.venues["active-bond"].dates = {1}
    /\ DOMAIN probe.current.venues["active-bond"].dates = {1, 2}
    /\ probe.current.venues["active-bond"].dates[2].slots["06:00"].available
    /\ Len(probe.result) = 1

\* the step is one refreshAllData invocation, recorded in lastRun'
Refreshed == now' = now /\ lastRun'.ran

\* a failure alert was delivered less than the cooldown window before the instant
DeliveredWithinCooldown(run, at) ==
    run.failureAlertAt # NoTime /\ at - run.failureAlertAt < ALERT_COOLDOWN_MINUTES

\* C7 as the specification states it: of two successive failure events less than
\* the cooldown window apart, each of which reached the cooldown test with mail
\* configured and the transport answering, the second has its alert suppressed
C7_Original ==
    [][(Refreshed /\ RunFailed(lastRun') /\ RunFailed(lastRun)
        /\ now - lastRun.at < ALERT_COOLDOWN_MINUTES
        /\ Len(lastRun.attempts) = 1
        /\ lastRun.attempts[1].outcome \in {"sent", "cooldown"}
        /\ Len(lastRun'.attempts) = 1
        /\ lastRun'.attempts[1].outcome \in {"sent", "cooldown"})
       => lastRun'.attempts[1].outcome = "cooldown"]_vars

\* C7: a failure event that occurs less than the cooldown window after a failure
\* event whose alert was delivered has its own alert suppressed, so the two
\* produce exactly one alert (the window runs from the last delivered alert, not
\* from the last failure event)
C7_SuppressedAfterDelivered ==
    [][(Refreshed /\ RunFailed(lastRun') /\ DeliveredWithinCooldown(lastRun, now))
       => /\ Len(lastRun'.attempts) = 1
          /\ lastRun'.attempts[1].outcome = "cooldown"
          /\ lastRun'.failureAlertAt = lastRun.failureAlertAt]_vars

C7_Witness ==
    /\ RunFailed(lastRun) /\ Len(lastRun.attempts) = 1
    /\ lastRun.attempts[1].outcome = "cooldown"
    /\ lastRun.failureAlertAt # NoTime /\ lastRun.failureAlertAt < lastRun.at
    /\ lastRun.at - lastRun.failureAlertAt < ALERT_COOLDOWN_MINUTES

\* C8: a recovery alert is never suppressed by the cooldown: when a refresh in
\* which both providers succeed finds a positive failure counter, the recovery
\* alert is attempted and its outcome is never "cooldown"; when a failure alert
\* was delivered less than the cooldown window earlier it is sent (it can only be
\* lost to the mail transport throwing)
C8_RecoveryBypassesCooldown ==
    [][(Refreshed /\ RunSucceeded(lastRun') /\ alertState.consecutiveFailures > 0)
       => /\ Len(lastRun'.attempts) = 1
          /\ lastRun'.attempts[1].subject = <<"Recovered">>
          /\ lastRun'.attempts[1].outcome # "cooldown"
          /\ DeliveredWithinCooldown(lastRun, now)
                => lastRun'.attempts[1].outcome \in {"sent", "failed"}]_vars

C8_Witness ==
    /\ RunSucceeded(lastRun) /\ Len(lastRun.attempts) = 1
    /\ lastRun.attempts[1].subject = <<"Recovered">>
    /\ lastRun.attempts[1].outcome = "sent"
    /\ DeliveredWithinCooldown(lastRun, lastRun.at)
    /\ lastRun.failureAlertAt < lastRun.at

\* the failure alert a failed run has to attempt: combined when both providers
\* failed, scoped to the one that failed otherwise
ExpectedFailureSubject(run) ==
    IF YieldedNothing(run.active) /\ YieldedNothing(run.evergreen)
    THEN <<"Refresh Failed:", "All Providers">>
    ELSE IF YieldedNothing(run.active) THEN <<"Provider Failed:", "Active">>
    ELSE <<"Provider Failed:", "Evergreen">>

ExpectedFailureError(run) ==
    IF YieldedNothing(run.active) /\ YieldedNothing(run.evergreen)
    THEN "Both providers failed. Active: " \o ErrorMessageOf(run.active, "Active")
         \o ", Evergreen: " \o ErrorMessageOf(run.evergreen, "Evergreen")
    ELSE IF YieldedNothing(run.active) THEN ErrorMessageOf(run.active, "Active")
    ELSE ErrorMessageOf(run.evergreen, "Evergreen")

\* C9: a refresh in which at least one provider failed attempts exactly one
\* failure alert (the combined one, composing both error messages, when both
\* failed; the one scoped to the failed provider otherwise) and raises the
\* consecutive-failure counter by exactly 1, also when the alert is suppressed by
\* the cooldown
C9_OneFailureAlertPerFailedRun ==
    [][(Refreshed /\ RunFailed(lastRun'))
       => /\ Len(lastRun'.attempts) = 1
          /\ lastRun'.attempts[1].subject = ExpectedFailureSubject(lastRun')
          /\ lastRun'.attempts[1].body.error = ExpectedFailureError(lastRun')
          /\ lastRun'.attempts[1].body.consecutiveFailures =
                alertState.consecutiveFailures + 1
          /\ alertState'.consecutiveFailures = alertState.consecutiveFailures + 1]_vars

C9_Witness ==
    /\ RunFailed(lastRun) /\ Len(lastRun.attempts) = 1
    /\ YieldedNothing(lastRun.active) /\ ~lastRun.evergreen.fulfilled
    /\ lastRun.attempts[1].outcome = "cooldown"
    /\ alertState.consecutiveFailures = 2

\* C10: on a refresh in which both providers succeeded, a failure counter N > 0
\* has one recovery alert reporting N attempted and becomes 0, and a counter of 0
\* has no alert attempted and the alert state left as it was; the counter is
\* never negative
C10_RecoveryResetsCounter ==
    [][/\ alertState.consecutiveFailures >= 0 /\ alertState'.consecutiveFailures >= 0
       /\ (Refreshed /\ RunSucceeded(lastRun')) =>
             IF alertState.consecutiveFailures > 0
             THEN /\ Len(lastRun'.attempts) = 1
                  /\ lastRun'.attempts[1].subject = <<"Recovered">>
                  /\ lastRun'.attempts[1].body =
                        [recoveredAfter |-> alertState.consecutiveFailures]
                  /\ alertState'.consecutiveFailures = 0
             ELSE lastRun'.attempts = <<>> /\ alertState' = alertState]_vars

C10_Witness ==
    /\ RunSucceeded(lastRun) /\ Len(lastRun.attempts) = 1
    /\ lastRun.attempts[1].body = [recoveredAfter |-> 2]
    /\ alertState.consecutiveFailures = 0

----------------------------------------------------------------------------
(* The alert manager inside the refresh *)

\* the run attempted an alert whose delivery met a throwing mail transport
DeliveryFailed(run) ==
    \E i \in 1..Len(run.attempts) : run.attempts[i].outcome = "failed"

\* the position of a step in a run's steps, 0 when the run did not take it
StepAt(run, step) ==
    IF \E i \in 1..Len(run.steps) : run.steps[i] = step
    THEN CHOOSE i \in 1..Len(run.steps) : run.steps[i] = step
    ELSE 0

\* C11: when the mail transport throws while an alert is delivered, the alert
\* handler still returns normally (a failure stays counted, a recovery still resets
\* the counter), the refresh goes on to its cache-update step, which writes exactly
\* when some provider yielded data, and the run does not end by throwing to its caller
C11_DeliveryErrorContained ==
    (lastRun.ran /\ DeliveryFailed(lastRun)) =>
        /\ ~lastRun.raised
        /\ lastRun.wrote = ~(YieldedNothing(lastRun.active) /\ YieldedNothing(lastRun.evergreen))
        /\ lastRun.wrote => (data = lastRun.candidate /\ StepAt(lastRun, "write") = Len(lastRun.steps))
        /\ \A i \in 1..Len(lastRun.attempts) :
              IF lastRun.attempts[i].subject = RecoverySubject
              THEN alertState.consecutiveFailures = 0
              ELSE alertState.consecutiveFailures
                       = lastRun.attempts[i].body.consecutiveFailures

C11_Witness ==
    /\ lastRun.ran /\ DeliveryFailed(lastRun) /\ lastRun.wrote
    /\ RunFailed(lastRun)

\* the run took step `first' and, if it took step `second' too, took `first' earlier
StepBefore(run, first, second) ==
    /\ StepAt(run, first) > 0
    /\ StepAt(run, second) > 0 => StepAt(run, first) < StepAt(run, second)

\* the failure alerts a run attempted
FailureAttempts(run) ==
    {i \in 1..Len(run.attempts) : run.attempts[i].subject # RecoverySubject}

\* C12 as stated: within one refresh the alert manager is driven only after the
\* cache update: the steps are fetch, merge, detect, webhooks, replace cache, alert
C12_Original ==
    (lastRun.ran /\ lastRun.wrote) =>
        /\ StepBefore(lastRun, "write", "alert")
        /\ StepAt(lastRun, "alert") = Len(lastRun.steps)

\* C12, amended: within one refresh the alert manager is driven right after the
\* fetch and before the cache is read, the snapshot merged, changes detected,
\* webhooks dispatched and the cache replaced; a failure alert therefore reports
\* the age and staleness of the cache as this refresh found it, not as it leaves it
C12_AlertBeforeCacheUpdate ==
    [][Refreshed =>
        /\ Len(lastRun'.steps) >= 2
        /\ lastRun'.steps[1] = "fetch" /\ lastRun'.steps[2] = "alert"
        /\ \A i \in 3..Len(lastRun'.steps) :
              lastRun'.steps[i] \in {"read", "merge", "detect", "webhook", "write"}
        /\ lastRun'.wrote = (lastRun'.steps[Len(lastRun'.steps)] = "write")
        /\ \A i \in FailureAttempts(lastRun') :
              /\ lastRun'.attempts[i].body.cacheAge = getCacheAge(lastRefresh, now)
              /\ lastRun'.attempts[i].body.cacheStatus
                    = IF isStale(lastRefresh, now) THEN "STALE" ELSE "OK"]_vars

C12_Witness ==
    /\ lastRun.ran /\ lastRun.wrote /\ lastRefresh = lastRun.at
    /\ \E i \in FailureAttempts(lastRun) :
          lastRun.attempts[i].body.cacheAge > 0

\* the (venue, date, slot) triples that opened between two snapshots
OpenedSlots(previous, current) ==
    {t \in VenueIds \X (1..FetchDaysAhead) \X SlotLabels :
        Opened(previous, current, t[1], t[2], t[3])}

\* the steps of a run that read the cache, detect changes, post webhooks and
\* write the cache, in the order the run took them
CacheSteps(run) ==
    LET concerned(step) == step \in {"read", "detect", "webhook", "write"}
    IN SelectSeq(run.steps, concerned)

\* C13: in a refresh of the worker that obtains data, the changes detected are
\* those between the snapshot the cache held before this refresh's write and the
\* candidate snapshot (none when the cache held nothing); the cache is read before
\* it is replaced, and webhooks are dispatched before the replacement and exactly
\* when the list of detected changes is not empty
C13_DetectAgainstPriorThenPost ==
    [][(Refreshed /\ variant = "worker" /\ lastRun'.wrote) =>
        /\ IF data = Null THEN lastRun'.changes = <<>>
           ELSE LET reported == { <<lastRun'.changes[i].venueId, lastRun'.changes[i].date,
                                    lastRun'.changes[i].timeSlot>> :
                                      i \in 1..Len(lastRun'.changes) }
                IN /\ reported = OpenedSlots(data, lastRun'.candidate)
                   /\ Cardinality(reported) = Len(lastRun'.changes)
        /\ CacheSteps(lastRun') =
              <<"read", "detect">>
              \o (IF lastRun'.changes # <<>> THEN <<"webhook">> ELSE <<>>) \o <<"write">>
        /\ lastRun'.changes = <<>> => lastRun'.posts = <<>>]_vars

C13_Witness ==
    /\ variant = "worker" /\ lastRun.ran /\ lastRun.wrote
    /\ lastRun.changes # <<>> /\ lastRun.posts # <<>>
    /\ CacheSteps(lastRun) = <<"read", "detect", "webhook", "write">>

----------------------------------------------------------------------------
(* Retrying transport: fetchWithRetry of providers/http-client.ts               *)
(* A call is followed from await to await: each request to the transport and    *)
(* each sleep is a step.  Two calls run side by side, as the two providers'     *)
(* fetches do under Promise.allSettled.                                         *)

defaultRetryConfig ==
    [maxRetries |-> 3, initialDelayMs |-> 1000, maxDelayMs |-> 10000, backoffMultiplier |-> 2]

\* the calls of fetchWithRetry that are under way
RetryCalls == {1, 2}

\* what fetch(url, options) can do: resolve to a response with a status, or reject
TransportAnswers ==
    {[status |-> n] : n \in {200, 404, 499, 500, 503}} \cup {[error |-> "fetch failed"]}

IsResponse(answer) == "status" \in DOMAIN answer

\* Response.ok
ResponseOk(response) == response.status >= 200 /\ response.status <= 299

\* line 59 made to return a success only
returnsResponseOnlyOk(answer) == IsResponse(answer) /\ ResponseOk(answer)

\* "if (response.ok || (response.status >= 400 && response.status < 500)) return response"
returnsResponse(answer) ==
    IsResponse(answer)
    /\ (ResponseOk(answer) \/ (answer.status >= 400 /\ answer.status < 500))

\* the Error made of a response that is retried, or the error the transport threw
errorOf(answer) ==
    IF IsResponse(answer) THEN [message |-> "HTTP", status |-> answer.status]
    ELSE [message |-> answer.error]

\* lastError kept from the first failure on
rememberFirstError(lastError, answer) ==
    IF lastError = Null THEN errorOf(answer) ELSE lastError

\* "lastError = ..." in the loop body, on a retried response and in the catch
rememberError(lastError, answer) == errorOf(answer)

\* the loop made to draw on one budget of retries for all the calls under way
MoreAttemptsShared(calls, c) ==
    calls[1].attempt + calls[2].attempt < defaultRetryConfig.maxRetries

\* "attempt < retryConfig.maxRetries": the loop has another iteration for call c
MoreAttempts(calls, c) == calls[c].attempt < defaultRetryConfig.maxRetries

\* "delay = Math.min(delay * retryConfig.backoffMultiplier, retryConfig.maxDelayMs)"
nextDelay(delay) ==
    IF delay * defaultRetryConfig.backoffMultiplier < defaultRetryConfig.maxDelayMs
    THEN delay * defaultRetryConfig.backoffMultiplier
    ELSE defaultRetryConfig.maxDelayMs

\* a call at its start: "let lastError = null; let delay = initialDelayMs; attempt = 0"
NewRetryCall ==
    [pc |-> "request", attempt |-> 0, delay |-> defaultRetryConfig.initialDelayMs,
     lastError |-> Null, seen |-> <<>>, waits |-> <<>>, result |-> Null]

\* the end of an iteration that failed, made to go on to the next without the sleep
afterFailureNoSleep(call, more) ==
    IF more THEN [call EXCEPT !.pc = "request", !.attempt = call.attempt + 1,
                              !.delay = nextDelay(call.delay)]
    ELSE [call EXCEPT !.pc = "thrown", !.result = call.lastError]

\* the end of an iteration that failed: sleep when another iteration follows
\* ("Don't wait after the last attempt"), else leave the loop and throw lastError
afterFailure(call, more) ==
    IF more THEN [call EXCEPT !.pc = "sleep"]
    ELSE [call EXCEPT !.pc = "thrown", !.result = call.lastError]

\* one iteration of the loop up to its await of sleep: the request and its answer
requestOnce(call, answer, more) ==
    LET asked == [call EXCEPT !.seen = Append(call.seen, answer)]
    IN IF returnsResponse(answer)
       THEN [asked EXCEPT !.pc = "returned", !.result = answer]
       ELSE afterFailure([asked EXCEPT !.lastError = rememberError(call.lastError, answer)],
                         more)

\* "await sleep(delay)", the new delay and the loop's attempt++
sleepOnce(call) ==
    [call EXCEPT !.pc = "request", !.waits = Append(call.waits, call.delay),
                 !.delay = nextDelay(call.delay), !.attempt = call.attempt + 1]

RetryInit ==
    /\ variant = "worker"
    /\ env = [mail |-> "configured", webhooks |-> {}]
    /\ now = 0
    /\ data = Null
    /\ lastRefresh = NoTime
    /\ alertState = InitialAlertState
    /\ lastRun = NoRun
    /\ probe = [fn |-> "fetchWithRetry", calls |-> [c \in RetryCalls |-> NewRetryCall]]

\* a call sends its request and the transport answers
RetryRequest ==
    /\ probe.fn = "fetchWithRetry"
    /\ \E c \in RetryCalls, answer \in TransportAnswers :
          /\ probe.calls[c].pc = "request"
          /\ probe' = [probe EXCEPT !.calls[c] =
                          requestOnce(probe.calls[c], answer, MoreAttempts(probe.calls, c))]
    /\ UNCHANGED <<variant, now, data, lastRefresh, alertState, env, lastRun>>

\* a call's sleep ends
RetrySleep ==
    /\ probe.fn = "fetchWithRetry"
    /\ \E c \in RetryCalls :
          /\ probe.calls[c].pc = "sleep"
          /\ probe' = [probe EXCEPT !.calls[c] = sleepOnce(probe.calls[c])]
    /\ UNCHANGED <<variant, now, data, lastRefresh, alertState, env, lastRun>>

RetryNext == RetryRequest \/ RetrySleep

SpecRetry == RetryInit /\ [][RetryNext]_vars

\* a fetchWithRetry is under examination
Retrying == probe.fn = "fetchWithRetry"

\* the answer made the call retry: a rejected fetch or a 5xx response
Transient(answer) ==
    ~IsResponse(answer) \/ (answer.status >= 500 /\ answer.status <= 599)

\* C14: a call retries on a network error or a 5xx response, and when the
\* transport answers 503, 503 and then 200 the call returns that 200 response
\* after three requests and two waits, of 1000 ms and 2000 ms
C14_RetriesThenSucceeds ==
    Retrying => \A c \in RetryCalls :
        LET call == probe.calls[c]
        IN /\ (Len(call.seen) >= 1 /\ Transient(call.seen[Len(call.seen)]))
                 => /\ call.pc # "returned"
                    /\ call.pc = "request" => Len(call.waits) = Len(call.seen)
                    /\ call.pc = "sleep" => Len(call.waits) = Len(call.seen) - 1
           /\ call.seen = <<[status |-> 503], [status |-> 503], [status |-> 200]>>
                 => /\ call.pc = "returned" /\ call.result = [status |-> 200]
                    /\ call.waits = <<1000, 2000>>

C14_Witness ==
    /\ Retrying
    /\ probe.calls[1].seen = <<[status |-> 503], [status |-> 503], [status |-> 200]>>
    /\ probe.calls[1].pc = "returned"

C16_Original ==
    Retrying => \A c \in RetryCalls : Len(probe.calls[c].seen) <= 3

\* C16, amended: under the default policy (maxRetries 3) one call issues at most 4
\* requests, the first and three retries; the count of a call depends on the
\* answers to its own requests only: whatever the other call has done, a call
\* gives up exactly when its own fourth request has failed
C16_FourRequestsPerCall ==
    Retrying => \A c \in RetryCalls :
        LET call == probe.calls[c]
        IN /\ Len(call.seen) <= defaultRetryConfig.maxRetries + 1
           /\ call.attempt = Len(call.waits)
           /\ call.pc = "thrown" <=>
                 (/\ Len(call.seen) = defaultRetryConfig.maxRetries + 1
                  /\ Transient(call.seen[Len(call.seen)]))
           /\ call.pc = "sleep" =>
                 (Len(call.seen) <= defaultRetryConfig.maxRetries
                  /\ Transient(call.seen[Len(call.seen)]))

C16_Witness ==
    /\ Retrying
    /\ Len(probe.calls[1].seen) = 4 /\ probe.calls[1].pc = "thrown"
    /\ Len(probe.calls[2].seen) = 4 /\ probe.calls[2].pc = "returned"

\* C17: a call all of whose attempts fail transiently ends, after its fourth
\* request, by throwing the error of that last attempt (not of an earlier one),
\* having waited between the attempts only: three waits, none after the last
C17_ThrowsLastError ==
    Retrying => \A c \in RetryCalls :
        LET call == probe.calls[c]
        IN /\ Len(call.seen) = defaultRetryConfig.maxRetries + 1
                 => call.pc \in {"returned", "thrown"}
           /\ call.pc = "thrown"
                 => /\ \A i \in 1..Len(call.seen) : Transient(call.seen[i])
                    /\ call.result = errorOf(call.seen[Len(call.seen)])
                    /\ call.waits = <<1000, 2000, 4000>>

C17_Witness ==
    /\ Retrying
    /\ probe.calls[1].pc = "thrown"
    /\ probe.calls[1].seen[1] = [status |-> 503]
    /\ probe.calls[1].seen[4] = [error |-> "fetch failed"]
    /\ probe.calls[1].result = [message |-> "fetch failed"]

----------------------------------------------------------------------------
(* Provider adapters: fetchActiveData (providers/active.ts) and                 *)
(* fetchEvergreenData (providers/evergreen.ts), one call followed from await to *)
(* await.  A fetchWithRetry call is one exchange here: it hands back the final  *)
(* response or throws.  The requested dates are 1..n.  A token is the number of *)
(* the login that issued it.  The authenticated adapter is the worker's; the    *)
(* node deployment's fetchDate and date loop are the same code.                 *)

\* the most dates one call is asked for
MaxAdapterDates == 4

CONCURRENCY == 3

\* what fetchWithRetry hands to the authenticated adapter's fetchDate: a response
\* with the provider's errorCode in its body, a response that is not ok, or a throw
EvergreenDateAnswers ==
    { [status |-> 200, errorCode |-> 0], [status |-> 200, errorCode |-> 1],
      [status |-> 401], [status |-> 403], [error |-> "fetch failed"] }

\* what fetchWithRetry hands to the anonymous adapter's fetchDate; hasData says
\* whether the body's data field holds the venues
ActiveDateAnswers ==
    { [status |-> 200, hasData |-> TRUE], [status |-> 200, hasData |-> FALSE],
      [status |-> 404], [error |-> "fetch failed"] }

\* what a call of login() comes to: a token, or a throw (status, errorCode, no token)
LoginAnswers == {"token", "throws"}

\* a date of the call: where its fetchDate stands (idle: not started; first: the
\* first request is out; login: the re-login is out; retry: the second request is
\* out; ok; failed), the answers to its requests, the tokens they carried and the
\* number of login calls made for it
NewDay == [pc |-> "idle", answers |-> <<>>, tokens |-> <<>>, logins |-> 0]

NewAdapterCall(fn, n) ==
    [fn |-> fn, dates |-> n,
     pc |-> IF fn = "fetchEvergreenData" THEN "login" ELSE "dates",
     token |-> 0, logins |-> 0,
     day |-> [d \in 1..n |-> NewDay], results |-> {}]

\* the dates whose fetchDate has started and not settled
InProgress(call) == {d \in 1..call.dates : call.day[d].pc \in {"first", "login", "retry"}}

\* the dates whose fetchDate has not started
IdleDates(call) == {d \in 1..call.dates : call.day[d].pc = "idle"}

\* fetchDate with the provider's non-zero errorCode taken for a plain failure
evergreenFetchDateNoCodeRetry(day, answer) ==
    LET seen == [day EXCEPT !.answers = Append(day.answers, answer)]
        retryOnAuth == day.pc = "first"
    IN IF ~IsResponse(answer) THEN [seen EXCEPT !.pc = "failed"]
       ELSE IF answer.status = 401 /\ retryOnAuth THEN [seen EXCEPT !.pc = "login"]
       ELSE IF ~ResponseOk(answer) THEN [seen EXCEPT !.pc = "failed"]
       ELSE IF answer.errorCode # 0 THEN [seen EXCEPT !.pc = "failed"]
       ELSE [seen EXCEPT !.pc = "ok"]

\* evergreen.ts fetchDate from the answer to its request on; retryOnAuth is true
\* for the first request of the date and false for the retry
evergreenFetchDate(day, answer) ==
    LET seen == [day EXCEPT !.answers = Append(day.answers, answer)]
        retryOnAuth == day.pc = "first"
    IN IF ~IsResponse(answer) THEN [seen EXCEPT !.pc = "failed"]
       ELSE IF answer.status = 401 /\ retryOnAuth THEN [seen EXCEPT !.pc = "login"]
       ELSE IF ~ResponseOk(answer) THEN [seen EXCEPT !.pc = "failed"]
       ELSE IF answer.errorCode # 0
       THEN IF retryOnAuth THEN [seen EXCEPT !.pc = "login"]
            ELSE [seen EXCEPT !.pc = "failed"]
       ELSE [seen EXCEPT !.pc = "ok"]

\* fetchDate after "const newToken = await login(credentials)": the retry goes out
\* with the new token, or the login's throw ends the date
evergreenRelogin(day, outcome, newToken) ==
    IF outcome = "token"
    THEN [day EXCEPT !.pc = "retry", !.logins = day.logins + 1,
                     !.tokens = Append(day.tokens, newToken)]
    ELSE [day EXCEPT !.pc = "failed", !.logins = day.logins + 1]

\* active.ts fetchDate from the answer on, inside the batch's try/catch
activeFetchDate(day, answer) ==
    LET seen == [day EXCEPT !.answers = Append(day.answers, answer)]
    IN IF ~IsResponse(answer) THEN [seen EXCEPT !.pc = "failed"]
       ELSE IF ~ResponseOk(answer) THEN [seen EXCEPT !.pc = "failed"]
       ELSE [seen EXCEPT !.pc = "ok"]

\* the dates started together, made to be all the dates that remain
evergreenNextAll(call) == IdleDates(call)

\* "for (const date of dates) { ... await fetchDate(date, token, credentials) }":
\* the date whose fetch starts when the loop goes on
evergreenNext(call) ==
    {d \in IdleDates(call) : \A e \in IdleDates(call) : d <= e}

\* the slice taken one date too long
activeNextWider(call) ==
    {d \in IdleDates(call) : Cardinality({e \in IdleDates(call) : e < d}) <= CONCURRENCY}

\* "dates.slice(i, i + CONCURRENCY)": the dates whose fetches start together
activeNext(call) ==
    {d \in IdleDates(call) : Cardinality({e \in IdleDates(call) : e < d}) < CONCURRENCY}

\* the fetches of the dates `next' go out, carrying the call's token
startDates(call, next, tokens) ==
    [call EXCEPT !.day = [d \in 1..call.dates |->
                             IF d \in next
                             THEN [call.day[d] EXCEPT !.pc = "first", !.tokens = tokens]
                             ELSE call.day[d]]]

\* the loop goes on: the next dates start, or the call returns its map
goOn(call, next, tokens) ==
    IF next = {} THEN [call EXCEPT !.pc = "returned"] ELSE startDates(call, next, tokens)

\* the loop without its try/catch: the throw of a date's fetch ends the call
evergreenResumeUncaught(call) ==
    IF \E d \in 1..call.dates : call.day[d].pc = "failed"
    THEN [call EXCEPT !.pc = "thrown"]
    ELSE goOn([call EXCEPT !.results = {d \in 1..call.dates : call.day[d].pc = "ok"}],
              evergreenNext(call), <<call.token>>)

\* fetchEvergreenData when the await of a date's fetchDate settles: results.set on
\* success, the catch on a throw, then the next date or "return results"
evergreenResume(call) ==
    goOn([call EXCEPT !.results = {d \in 1..call.dates : call.day[d].pc = "ok"}],
         evergreenNext(call), <<call.token>>)

\* fetchActiveData when the await of a batch's Promise.all settles: results.set
\* for the results with data, then the next batch or "return results"
activeResume(call) ==
    goOn([call EXCEPT !.results =
              {d \in 1..call.dates :
                  /\ call.day[d].pc = "ok"
                  /\ call.day[d].answers[Len(call.day[d].answers)].hasData}],
         activeNext(call), <<>>)

AdapterInit ==
    /\ variant = "worker"
    /\ env = [mail |-> "configured", webhooks |-> {}]
    /\ now = 0
    /\ data = Null
    /\ lastRefresh = NoTime
    /\ alertState = InitialAlertState
    /\ lastRun = NoRun
    /\ probe \in { NewAdapterCall(fn, n) :
                     fn \in {"fetchActiveData", "fetchEvergreenData"},
                     n \in 0..MaxAdapterDates }

\* fetchEvergreenData "Get auth token first": const token = await login(credentials)
EvergreenLogin ==
    /\ probe.fn = "fetchEvergreenData" /\ probe.pc = "login"
    /\ \E outcome \in LoginAnswers :
          probe' = IF outcome = "token"
                   THEN [probe EXCEPT !.pc = "dates", !.logins = probe.logins + 1,
                                      !.token = probe.logins + 1]
                   ELSE [probe EXCEPT !.pc = "thrown", !.logins = probe.logins + 1]
    /\ UNCHANGED <<variant, now, data, lastRefresh, alertState, env, lastRun>>

\* the loop of fetchEvergreenData goes on after the date it awaited
EvergreenResume ==
    /\ probe.fn = "fetchEvergreenData" /\ probe.pc = "dates"
    /\ InProgress(probe) = {}
    /\ probe' = evergreenResume(probe)
    /\ UNCHANGED <<variant, now, data, lastRefresh, alertState, env, lastRun>>

\* the request of a date is answered
EvergreenDateAnswer ==
    /\ probe.fn = "fetchEvergreenData"
    /\ \E d \in 1..probe.dates, answer \in EvergreenDateAnswers :
          /\ probe.day[d].pc \in {"first", "retry"}
          /\ probe' = [probe EXCEPT !.day[d] = evergreenFetchDate(probe.day[d], answer)]
    /\ UNCHANGED <<variant, now, data, lastRefresh, alertState, env, lastRun>>

\* the re-login made for a date settles
EvergreenRelogin ==
    /\ probe.fn = "fetchEvergreenData"
    /\ \E d \in 1..probe.dates, outcome \in LoginAnswers :
          /\ probe.day[d].pc = "login"
          /\ probe' = [probe EXCEPT
                          !.logins = probe.logins + 1,
                          !.day[d] = evergreenRelogin(probe.day[d], outcome, probe.logins + 1)]
    /\ UNCHANGED <<variant, now, data, lastRefresh, alertState, env, lastRun>>

\* the loop of fetchActiveData goes on after the batch it awaited
ActiveResume ==
    /\ probe.fn = "fetchActiveData" /\ probe.pc = "dates"
    /\ InProgress(probe) = {}
    /\ probe' = activeResume(probe)
    /\ UNCHANGED <<variant, now, data, lastRefresh, alertState, env, lastRun>>

\* the request of a date of the batch is answered
ActiveDateAnswer ==
    /\ probe.fn = "fetchActiveData"
    /\ \E d \in 1..probe.dates, answer \in ActiveDateAnswers :
          /\ probe.day[d].pc = "first"
          /\ probe' = [probe EXCEPT !.day[d] = activeFetchDate(probe.day[d], answer)]
    /\ UNCHANGED <<variant, now, data, lastRefresh, alertState, env, lastRun>>

AdapterNext ==
    \/ EvergreenLogin \/ EvergreenResume \/ EvergreenDateAnswer \/ EvergreenRelogin
    \/ ActiveResume \/ ActiveDateAnswer

SpecAdapter == AdapterInit /\ [][AdapterNext]_vars

\* a call of the authenticated / of the anonymous adapter is under examination
InEvergreen == probe.fn = "fetchEvergreenData"
InActive == probe.fn = "fetchActiveData"

\* the answer is the one fetchDate re-logs in for: HTTP 401, or a body with a
\* non-zero errorCode
AuthTrouble(answer) ==
    /\ IsResponse(answer)
    /\ \/ answer.status = 401
       \/ (ResponseOk(answer) /\ answer.errorCode # 0)

\* the fetch of the date has settled
Settled(day) == day.pc \in {"ok", "failed"}

\* C18 as stated: a 401 or a non-zero error code on the first try of a date
\* triggers exactly one login call and exactly one retry of the date; when the
\* retry meets the same again, nothing further happens and the date fails
C18_Original ==
    InEvergreen => \A d \in 1..probe.dates :
        LET day == probe.day[d]
        IN /\ (Settled(day) /\ AuthTrouble(day.answers[1]))
                 => (day.logins = 1 /\ Len(day.answers) = 2)
           /\ (Len(day.answers) = 2 /\ AuthTrouble(day.answers[2]))
                 => (day.pc = "failed" /\ day.logins = 1)

\* C18, amended: for each date, a 401 or a non-zero error code on the first try
\* triggers exactly one login call and, when that login succeeds, exactly one
\* retry of the date, sent with the new token; when the login throws, the date
\* fails without a retry.  A retry that again meets a 401 or a non-zero error code
\* is followed by no further login or request and the date fails.  Any other
\* first answer settles the date with one request and no login.
C18_OneReloginOneRetry ==
    InEvergreen => \A d \in 1..probe.dates :
        LET day == probe.day[d]
        IN /\ day.logins <= 1 /\ Len(day.answers) <= 2
           /\ Len(day.tokens) = Len(day.answers) + (IF day.pc \in {"first", "retry"} THEN 1 ELSE 0)
           /\ (Settled(day) /\ AuthTrouble(day.answers[1]))
                 => /\ day.logins = 1
                    /\ \/ Len(day.answers) = 2 /\ day.tokens[2] # day.tokens[1]
                       \/ Len(day.answers) = 1 /\ day.pc = "failed"
           /\ (Settled(day) /\ ~AuthTrouble(day.answers[1]))
                 => (day.logins = 0 /\ Len(day.answers) = 1)
           /\ (Len(day.answers) = 2 /\ AuthTrouble(day.answers[2]))
                 => (day.pc = "failed" /\ day.logins = 1)
           /\ Len(day.answers) = 2 => (Settled(day) /\ AuthTrouble(day.answers[1]))

C18_Witness ==
    /\ InEvergreen /\ probe.dates >= 2
    /\ probe.day[1].answers = <<[status |-> 401], [status |-> 200, errorCode |-> 1]>>
    /\ probe.day[1].pc = "failed" /\ probe.day[1].logins = 1
    /\ probe.day[2].answers = <<[status |-> 200, errorCode |-> 1]>>
    /\ probe.day[2].pc = "failed" /\ probe.day[2].logins = 1

\* the last answer to the date's requests carried the date's data
GotData(day) ==
    /\ Len(day.answers) >= 1
    /\ LET last == day.answers[Len(day.answers)]
       IN /\ IsResponse(last) /\ ResponseOk(last)
          /\ IF InEvergreen THEN last.errorCode = 0 ELSE last.hasData

\* C19: in both adapters a call that returns has attempted every requested date,
\* and its map holds exactly the requested dates whose fetch came back with data;
\* a date whose fetch threw is left out and never ends the call, which throws only
\* when the authenticated adapter's first login does, before any date is tried
C19_PerDateFailuresIsolated ==
    (InEvergreen \/ InActive) =>
        /\ probe.results \subseteq {d \in 1..probe.dates : GotData(probe.day[d])}
        /\ probe.pc = "returned" =>
              /\ \A d \in 1..probe.dates :
                    Settled(probe.day[d]) /\ Len(probe.day[d].answers) >= 1
              /\ probe.results = {d \in 1..probe.dates : GotData(probe.day[d])}
        /\ probe.pc = "thrown" =>
              /\ InEvergreen /\ probe.logins = 1
              /\ \A d \in 1..probe.dates : probe.day[d].pc = "idle"

C19_Witness ==
    /\ InEvergreen /\ probe.pc = "returned" /\ probe.dates = 3
    /\ probe.day[1].pc = "ok" /\ probe.day[2].pc = "failed" /\ probe.day[3].pc = "ok"
    /\ probe.day[2].answers = <<[error |-> "fetch failed"]>>
    /\ probe.results = {1, 3}

\* C20: the authenticated adapter fetches the dates one after the other: at most
\* one date of a call is under way (its request, its re-login or its retry), and a
\* date is started only when every earlier date has settled
C20_OneDateAtATime ==
    InEvergreen =>
        /\ Cardinality(InProgress(probe)) <= 1
        /\ \A d \in 1..probe.dates :
              probe.day[d].pc # "idle" =>
                 \A e \in 1..(d - 1) : Settled(probe.day[e])

C20_Witness ==
    /\ InEvergreen /\ probe.dates >= 2
    /\ probe.day[1].pc = "ok" /\ Len(probe.day[1].answers) = 2
    /\ probe.day[2].pc = "retry"

\* the batch "dates.slice(i, i + CONCURRENCY)" the date belongs to, counted from 0
BatchOf(d) == (d - 1) \div CONCURRENCY

\* C21: the anonymous adapter fetches the dates in batches of 3: at most 3 date
\* fetches of one fetchActiveData call are under way at any time, and a fetch of a
\* later batch has started only when every fetch of every earlier batch has
\* settled, successfully or not
C21_BatchesOfThree ==
    InActive =>
        /\ Cardinality(InProgress(probe)) <= 3
        /\ \A d \in 1..probe.dates :
              probe.day[d].pc # "idle" =>
                 \A e \in 1..probe.dates :
                    BatchOf(e) < BatchOf(d) => Settled(probe.day[e])

C21_Witness ==
    /\ InActive /\ probe.dates = 4
    /\ probe.day[1].pc = "ok" /\ probe.day[2].pc = "failed" /\ probe.day[3].pc = "ok"
    /\ probe.day[4].pc = "first"
    /\ probe.results = {1, 3}

----------------------------------------------------------------------------
(* The two providers inside one refresh *)

\* C22: the status a refresh records for a provider is 'error' exactly when that
\* provider's fetch threw or returned zero dates and 'ok' otherwise; whatever one
\* provider did, the other's fetch settled in the same run, and a run in which
\* some provider yielded dates stores a snapshot that holds every date each
\* provider yielded for its venues
C22_ProviderIsolation ==
    /\ (lastRun.ran /\ ~(YieldedNothing(lastRun.active) /\ YieldedNothing(lastRun.evergreen)))
          => lastRun.wrote
    /\ lastRun.wrote =>
          /\ Replaced
          /\ data.provider_status.active.status =
                IF YieldedNothing(lastRun.active) THEN "error" ELSE "ok"
          /\ data.provider_status.evergreen.status =
                IF YieldedNothing(lastRun.evergreen) THEN "error" ELSE "ok"
          /\ StoredDates("active-bond") =
                {d \in lastRun.active.dates : "1" \in lastRun.active.venues[d]}
          /\ StoredDates("active-corinthian") =
                {d \in lastRun.active.dates : "2" \in lastRun.active.venues[d]}
          /\ StoredDates("evergreen") = lastRun.evergreen.dates

C22_Witness ==
    /\ lastRun.wrote /\ ~lastRun.evergreen.fulfilled
    /\ lastRun.active.fulfilled /\ lastRun.active.dates # {}
    /\ data.provider_status.evergreen.status = "error"
    /\ data.provider_status.active.status = "ok"
    /\ StoredDates("active-bond") # {} /\ StoredDates("evergreen") = {}

\* C23: every snapshot a refresh stores holds all three configured venue ids, each
\* with the name and the address of the static venue metadata; and in the
\* snapshot a refresh has just stored, the venues of a provider that failed (it
\* threw or returned zero dates) have an empty dates map
C23_AllVenuesAlways ==
    /\ data # Null =>
          /\ DOMAIN data.venues = {"active-bond", "active-corinthian", "evergreen"}
          /\ \A i \in 1..Len(VENUES) :
                /\ data.venues[VENUES[i].id].name = VENUES[i].name
                /\ data.venues[VENUES[i].id].address = VENUES[i].address
    /\ lastRun.wrote =>
          /\ YieldedNothing(lastRun.active) =>
                (StoredDates("active-bond") = {} /\ StoredDates("active-corinthian") = {})
          /\ YieldedNothing(lastRun.evergreen) => StoredDates("evergreen") = {}

C23_Witness ==
    /\ lastRun.wrote /\ YieldedNothing(lastRun.active) /\ lastRun.at > 0
    /\ DOMAIN data.venues = {"active-bond", "active-corinthian", "evergreen"}
    /\ StoredDates("active-bond") = {} /\ StoredDates("active-corinthian") = {}
    /\ StoredDates("evergreen") # {}
    /\ data.venues["active-bond"].name = "Active - Bond Crescent"

----------------------------------------------------------------------------
(* Serving the cache: the availability query (routes/availability.ts of both    *)
(* deployments) over a cache that refreshes store into while time passes, in    *)
(* minutes.  The query is followed from its validated request on.               *)

\* the last minute of a behaviour
MaxServeTime == 62

\* the minutes the clock can advance by in one step
ServeSteps == {1, CACHE_TTL_MINUTES}

ErrorResponse(status, error, message) ==
    [status |-> status, error |-> error, message |-> message, body |-> Null]

\* "sortedDates.slice(startIndex, startIndex + 7)": of a venue's dates, the first
\* seven from startDate on
FromStartDate(dates, startDate) ==
    LET later == {d \in DOMAIN dates : d >= startDate}
        kept == {d \in later : Cardinality({e \in later : e < d}) < 7}
    IN [d \in kept |-> dates[d]]

\* the response built from the filtered snapshot: week_start and week_end are the
\* first and the last of the dates kept, or startDate when no date is kept
AvailabilityResponse(cachedData, startDate) ==
    LET filteredVenues ==
            [v \in DOMAIN cachedData.venues |->
                [cachedData.venues[v] EXCEPT
                    !.dates = FromStartDate(cachedData.venues[v].dates, startDate)]]
        uniqueDates == Ascending(UNION {DOMAIN filteredVenues[v].dates :
                                          v \in DOMAIN filteredVenues})
    IN [generated_at |-> cachedData.generated_at,
        week_start |-> IF uniqueDates = <<>> THEN startDate ELSE uniqueDates[1],
        week_end |-> IF uniqueDates = <<>> THEN startDate
                     ELSE uniqueDates[Len(uniqueDates)],
        venues |-> filteredVenues]

\* the handler with the test of the ceiling left out
availabilityPostAnyAge(cached, stamp, at, venueIds, startDate) ==
    IF ~hasData(cached, stamp)
    THEN ErrorResponse(503, "SERVICE_UNAVAILABLE", "Data not yet available")
    ELSE IF ~isDateInRange(cached, startDate)
    THEN ErrorResponse(400, "DATE_OUT_OF_RANGE", "Requested date is outside cached range")
    ELSE [status |-> 200, error |-> "", message |-> "",
          body |-> AvailabilityResponse(FilterVenues(cached, venueIds), startDate)]

\* availability.post("/") from "Check if cache has data" on
availabilityPost(cached, stamp, at, venueIds, startDate) ==
    IF ~hasData(cached, stamp)
    THEN ErrorResponse(503, "SERVICE_UNAVAILABLE", "Data not yet available")
    ELSE IF isTooOldToServe(stamp, at)
    THEN ErrorResponse(503, "SERVICE_UNAVAILABLE", "Data is too stale")
    ELSE IF ~isDateInRange(cached, startDate)
    THEN ErrorResponse(400, "DATE_OUT_OF_RANGE", "Requested date is outside cached range")
    ELSE LET cachedData == IF variant = "worker" THEN getCachedData(cached, venueIds)
                           ELSE CacheGet(cached, venueIds)
         IN IF cachedData = Null
            THEN ErrorResponse(503, "SERVICE_UNAVAILABLE", "Unable to retrieve data")
            ELSE [status |-> 200, error |-> "", message |-> "",
                  body |-> AvailabilityResponse(cachedData, startDate)]

\* no query has been answered since the last step of the clock or of the cache
NoQuery == [fn |-> "availability", asked |-> FALSE]

\* the validated requests: the venues asked for (none: all of them) and the start
\* date, inside and after the cached range
ServeVenueFilters == {<<>>, <<"evergreen">>}
ServeStartDates == {1, 2}

\* the snapshots a refresh can have merged at the instant, for the provider
\* answers in which both providers returned data and the anonymous provider's
\* names both its venues
ServeSnapshots(at) ==
    { mergeProviderData(ProcessResult(r[1], at, "Active").data,
                        ProcessResult(r[2], at, "Evergreen").data, Dates,
                        ProcessResult(r[1], at, "Active").status,
                        ProcessResult(r[2], at, "Evergreen").status, at) :
        r \in {q \in ActiveResults \X EvergreenResults :
                  /\ q[2].status = "fulfilled" /\ MapSize(q[2].value) > 0
                  /\ MapSize(q[1].value) > 0
                  /\ \A d \in DOMAIN q[1].value.entries :
                        DOMAIN q[1].value.entries[d] = {"1", "2"}} }

ServeInit ==
    /\ variant \in {"worker", "node"}
    /\ env = [mail |-> "configured", webhooks |-> {}]
    /\ now = 0
    /\ data = Null
    /\ lastRefresh = NoTime
    /\ alertState = InitialAlertState
    /\ lastRun = NoRun
    /\ probe = NoQuery

\* time passes
ServeTick ==
    /\ \E step \in ServeSteps :
          /\ now + step <= MaxServeTime
          /\ now' = now + step
    /\ probe' = NoQuery
    /\ UNCHANGED <<variant, data, lastRefresh, alertState, env, lastRun>>

\* a refresh stores the snapshot it merged: kvCache.setCachedData / cache.set
ServeSet ==
    /\ \E snapshot \in ServeSnapshots(now) :
          LET put == IF variant = "worker" THEN setCachedData(snapshot, now)
                     ELSE CacheSet(snapshot, now)
          IN data' = put.data /\ lastRefresh' = put.lastRefresh
    /\ probe' = NoQuery
    /\ UNCHANGED <<variant, now, alertState, env, lastRun>>

\* a validated availability query is answered
ServeQuery ==
    /\ \E venueIds \in ServeVenueFilters, startDate \in ServeStartDates :
          probe' = [fn |-> "availability", asked |-> TRUE,
                    venueIds |-> venueIds, startDate |-> startDate,
                    answer |-> availabilityPost(data, lastRefresh, now, venueIds, startDate)]
    /\ UNCHANGED <<variant, now, data, lastRefresh, alertState, env, lastRun>>

ServeNext == ServeTick \/ ServeSet \/ ServeQuery

SpecServe == ServeInit /\ [][ServeNext]_vars

\* a query of the availability route has just been answered
Asked == probe.fn = "availability" /\ probe.asked

\* the minutes since the cache was last set
MinutesSinceSet == now - lastRefresh

\* C24: isStale() is true exactly when nothing was ever stored or more than the
\* 20 minutes of the time to live have passed since the last set, and
\* isTooOldToServe() exactly when nothing was ever stored or more than the 60
\* minutes of the stale-serve ceiling have passed; at an age equal to the
\* threshold neither is true; and a set brings the age back to zero
C24_StaleAndTooOld ==
    /\ [](/\ lastRefresh = NoTime => (isStale(lastRefresh, now) /\ isTooOldToServe(lastRefresh, now))
          /\ lastRefresh # NoTime =>
                /\ isStale(lastRefresh, now) = (MinutesSinceSet >= 21)
                /\ isTooOldToServe(lastRefresh, now) = (MinutesSinceSet >= 61)
                /\ MinutesSinceSet >= 0)
    /\ [][data' # data =>
             /\ getCacheAge(lastRefresh', now') = 0
             /\ ~isStale(lastRefresh', now') /\ ~isTooOldToServe(lastRefresh', now')]_vars

C24_Witness ==
    /\ lastRefresh = 1 /\ now = 61
    /\ isStale(lastRefresh, now) /\ ~isTooOldToServe(lastRefresh, now)
    /\ data.generated_at = 1

\* C25: the availability query never returns snapshot data when the cache is
\* empty or more than the 60 minutes of the ceiling old: it answers 503
\* SERVICE_UNAVAILABLE without data; a snapshot that is stale (more than 20
\* minutes old) but not past the ceiling is still served: the query is never
\* refused with 503, and for a start date inside the cached range it answers 200
\* with the stored snapshot's venues
C25_ServedUnlessEmptyOrTooOld ==
    Asked =>
        LET answer == probe.answer
            refused == data = Null \/ lastRefresh = NoTime \/ MinutesSinceSet > 60
        IN /\ refused =>
                 /\ answer.status = 503 /\ answer.error = "SERVICE_UNAVAILABLE"
                 /\ answer.body = Null
           /\ ~refused =>
                 /\ answer.status # 503
                 /\ (probe.startDate >= data.week_start /\ probe.startDate <= data.week_end)
                       => /\ answer.status = 200
                          /\ answer.body.generated_at = data.generated_at
                          /\ \A v \in DOMAIN answer.body.venues :
                                answer.body.venues[v] = data.venues[v]
                          /\ DOMAIN answer.body.venues =
                                IF probe.venueIds = <<>> THEN DOMAIN data.venues
                                ELSE {probe.venueIds[i] : i \in 1..Len(probe.venueIds)}
           /\ answer.status = 200 <=> answer.body # Null

C25_Witness ==
    /\ Asked /\ probe.answer.status = 200
    /\ MinutesSinceSet = 60 /\ isStale(lastRefresh, now)
    /\ probe.answer.body.generated_at = lastRefresh
    /\ DOMAIN probe.answer.body.venues = {"evergreen"}
    /\ DOMAIN probe.answer.body.venues["evergreen"].dates # {}

----------------------------------------------------------------------------
(* Webhook notifier: one call of notifySlotChanges (services/webhook.ts),       *)
(* followed from the call to its return, with the targets answering.            *)

WebhookTargetNames == {WebhookNames[i] : i \in 1..Len(WebhookNames)}

\* env.WEBHOOK_URL_* and env.WEBHOOK_SECRET_*: which of them are set, per target
WebhookEnvs == [WebhookTargetNames -> [url : BOOLEAN, secret : BOOLEAN]]

\* "if (env.WEBHOOK_URL_X && env.WEBHOOK_SECRET_X)": the targets that are configured
ConfiguredTargets(wenv) == {t \in WebhookTargetNames : wenv[t].url /\ wenv[t].secret}

\* what fetch(target.url, ...) comes to: a response, or a throw
WebhookAnswers == {[status |-> 200], [status |-> 500], [error |-> "fetch failed"]}

\* the change lists a call is made with
NotifyChanges ==
    { <<>>,
      <<SlotChange("evergreen", 1, "06:00", OpenSlot)>>,
      <<SlotChange("active-bond", 1, "06:00", OpenSlot),
        SlotChange("evergreen", 1, "07:00", PremiumSlot)>> }

\* a target of the call: the requests made to it, whether its sendWebhook has
\* settled and with what
NotSent == [requests |-> 0, settled |-> FALSE, success |-> FALSE]

NewNotifyCall(wenv, changes) ==
    [fn |-> "notifySlotChanges", env |-> wenv, changes |-> changes, pc |-> "called",
     posts |-> <<>>, sent |-> [t \in WebhookTargetNames |-> NotSent]]

\* sendWebhook made to post once more after a failure
sendWebhookRetrying(sent, answer) ==
    IF ~(IsResponse(answer) /\ ResponseOk(answer)) /\ sent.requests < 2
    THEN [sent EXCEPT !.requests = sent.requests + 1]
    ELSE [sent EXCEPT !.settled = TRUE,
                      !.success = IsResponse(answer) /\ ResponseOk(answer)]

\* sendWebhook from the answer to its fetch on: { success: true } for an ok
\* response, { success: false } for any other response and, from the catch, for
\* a throw
sendWebhook(sent, answer) ==
    [sent EXCEPT !.settled = TRUE,
                 !.success = IsResponse(answer) /\ ResponseOk(answer)]

\* the targets the call has posted to
Posted(call) == {call.posts[i].target : i \in 1..Len(call.posts)}

WebhookInit ==
    /\ variant = "worker"
    /\ env = [mail |-> "configured", webhooks |-> {}]
    /\ now = 0
    /\ data = Null
    /\ lastRefresh = NoTime
    /\ alertState = InitialAlertState
    /\ lastRun = NoRun
    /\ probe \in {NewNotifyCall(wenv, changes) : wenv \in WebhookEnvs, changes \in NotifyChanges}

\* notifySlotChanges up to "await Promise.allSettled(targets.map(...))": the early
\* returns, or one POST to every configured target
WebhookSend ==
    /\ probe.fn = "notifySlotChanges" /\ probe.pc = "called"
    /\ LET posts == notifySlotChanges(ConfiguredTargets(probe.env), probe.changes)
           targets == {posts[i].target : i \in 1..Len(posts)}
       IN probe' = [probe EXCEPT
                       !.pc = IF posts = <<>> THEN "returned" ELSE "waiting",
                       !.posts = posts,
                       !.sent = [t \in WebhookTargetNames |->
                                   IF t \in targets
                                   THEN [probe.sent[t] EXCEPT !.requests = 1]
                                   ELSE probe.sent[t]]]
    /\ UNCHANGED <<variant, now, data, lastRefresh, alertState, env, lastRun>>

\* the fetch of one target is answered
WebhookAnswer ==
    /\ probe.fn = "notifySlotChanges" /\ probe.pc = "waiting"
    /\ \E t \in Posted(probe), answer \in WebhookAnswers :
          /\ ~probe.sent[t].settled
          /\ probe' = [probe EXCEPT !.sent[t] = sendWebhook(probe.sent[t], answer)]
    /\ UNCHANGED <<variant, now, data, lastRefresh, alertState, env, lastRun>>

\* Promise.allSettled settles, the results are logged and the call returns
WebhookReturn ==
    /\ probe.fn = "notifySlotChanges" /\ probe.pc = "waiting"
    /\ \A t \in Posted(probe) : probe.sent[t].settled
    /\ probe' = [probe EXCEPT !.pc = "returned"]
    /\ UNCHANGED <<variant, now, data, lastRefresh, alertState, env, lastRun>>

WebhookNext == WebhookSend \/ WebhookAnswer \/ WebhookReturn

SpecWebhook == WebhookInit /\ [][WebhookNext]_vars

InNotify == probe.fn = "notifySlotChanges"

\* C26: a call of notifySlotChanges with a non-empty change list posts exactly
\* once to each configured target, all of them before any answer is in, each POST
\* carrying the whole list; no target is posted to a second time whatever it
\* answered; whatever the targets answer the call returns, never raising; with no
\* target configured or an empty change list it returns without any request
C26_OnePostPerTarget ==
    InNotify =>
        LET targets == ConfiguredTargets(probe.env)
            nothing == probe.changes = <<>> \/ targets = {}
        IN /\ probe.pc \in {"called", "waiting", "returned"}
           /\ \A t \in WebhookTargetNames : probe.sent[t].requests <= 1
           /\ probe.pc # "called" =>
                 /\ \A t \in WebhookTargetNames :
                       probe.sent[t].requests =
                          IF ~nothing /\ t \in targets THEN 1 ELSE 0
                 /\ Len(probe.posts) = IF nothing THEN 0 ELSE Cardinality(targets)
                 /\ \A i \in 1..Len(probe.posts) : probe.posts[i].slots = probe.changes
           /\ (probe.pc = "waiting") => ~nothing
           /\ (probe.pc = "returned" /\ ~nothing) =>
                 \A t \in targets : probe.sent[t].settled

C26_Witness ==
    /\ InNotify /\ probe.pc = "returned" /\ Len(probe.changes) = 2
    /\ ConfiguredTargets(probe.env) = WebhookTargetNames
    /\ probe.sent["oi-my-court"] = [requests |-> 1, settled |-> TRUE, success |-> FALSE]
    /\ probe.sent["is-collin-available"] = [requests |-> 1, settled |-> TRUE, success |-> TRUE]

----------------------------------------------------------------------------
(* Overlapping refreshes: two invocations of refreshAllData (the scheduled one  *)
(* and a manually triggered one) followed from await to await over the shared   *)
(* cache and alert state.  Nothing in the code keeps them apart.                *)

\* the last minute of a behaviour with overlapping refreshes
MaxOverlapTime == 1

Invocations == {1, 2}

\* the provider answers an invocation can meet: the anonymous provider returns
\* nothing or data of both its venues, the authenticated one data or a throw
OverlapResults ==
    {q \in ActiveResults \X EvergreenResults :
        /\ \A d \in DOMAIN q[1].value.entries : DOMAIN q[1].value.entries[d] = {"1", "2"}
        /\ q[2].status = "fulfilled" => MapSize(q[2].value) > 0}

\* an invocation: where it stands, the instant it started, what it made of the
\* providers' answers, the snapshot it read from the cache, the snapshot it
\* merged and the changes it detected
NewInvocation ==
    [pc |-> "idle", at |-> NoTime, active |-> Null, evergreen |-> Null,
     previous |-> Null, candidate |-> Null, changes |-> <<>>]

\* the put made to keep the stored dates of the authenticated provider's venue
putKeepingEvergreen(cached, snapshot, at) ==
    [data |-> IF cached = Null THEN snapshot
              ELSE [snapshot EXCEPT !.venues["evergreen"] = cached.venues["evergreen"]],
     lastRefresh |-> at]

\* "await kvCache.setCachedData(env.CACHE, mergedData)" / "cache.set(mergedData)":
\* the stored value is replaced as a whole
put(cached, snapshot, at) ==
    IF variant = "worker" THEN setCachedData(snapshot, at) ELSE CacheSet(snapshot, at)

\* what the cache holds when the invocations begin: nothing, or the snapshot
\* an earlier refresh stored, in which the authenticated provider's 06:00 slot
\* is not available
StoredBefore ==
    { [data |-> Null, lastRefresh |-> NoTime] }
    \cup
    { put(Null,
          mergeProviderData(q[1].value, q[2].value, Dates,
                            ProcessResult(q[1], 0, "Active").status,
                            ProcessResult(q[2], 0, "Evergreen").status, 0),
          0) :
        q \in {r \in OverlapResults :
                  /\ MapSize(r[1].value) > 0
                  /\ r[2].status = "fulfilled"
                  /\ \A d \in DOMAIN r[2].value.entries :
                        ~transformEvergreenDayData(r[2].value.entries[d]).slots["06:00"].available} }

OverlapInit ==
    /\ variant \in {"worker", "node"}
    /\ env = [mail |-> "configured",
              webhooks |-> IF variant = "worker" THEN {"oi-my-court"} ELSE {}]
    /\ now = 0
    /\ \E start \in StoredBefore :
          /\ data = start.data
          /\ lastRefresh = start.lastRefresh
          /\ probe = [fn |-> "overlap", run |-> [i \in Invocations |-> NewInvocation],
                      writes |-> <<>>, start |-> start]
    /\ alertState = InitialAlertState
    /\ lastRun = NoRun

\* time passes
OverlapTick ==
    /\ probe.fn = "overlap" /\ now < MaxOverlapTime
    /\ now' = now + 1
    /\ UNCHANGED <<variant, data, lastRefresh, alertState, env, lastRun, probe>>

\* refreshAllData is invoked: "const now = new Date().toISOString()", then the
\* await of the two fetches
OverlapStart ==
    /\ probe.fn = "overlap"
    /\ \E i \in Invocations :
          /\ probe.run[i].pc = "idle"
          /\ probe' = [probe EXCEPT !.run[i].pc = "fetching", !.run[i].at = now]
    /\ UNCHANGED <<variant, now, data, lastRefresh, alertState, env, lastRun>>

\* Promise.allSettled settles and the two results are processed
OverlapFetched ==
    /\ probe.fn = "overlap"
    /\ \E i \in Invocations, q \in OverlapResults :
          /\ probe.run[i].pc = "fetching"
          /\ probe' = [probe EXCEPT
                          !.run[i].pc = "fetched",
                          !.run[i].active = ProcessResult(q[1], probe.run[i].at, "Active"),
                          !.run[i].evergreen = ProcessResult(q[2], probe.run[i].at, "Evergreen")]
    /\ UNCHANGED <<variant, now, data, lastRefresh, alertState, env, lastRun>>

\* "Check for failures and send alerts", then the guard of the cache update
OverlapAlert ==
    /\ probe.fn = "overlap"
    /\ \E i \in Invocations, mail \in MailAnswers(env.mail) :
          LET run == probe.run[i]
              alerts == IF variant = "worker"
                        THEN WorkerAlerts(alertState, run.active, run.evergreen,
                                          lastRefresh, mail, now)
                        ELSE NodeAlerts(alertState, run.active, run.evergreen,
                                        lastRefresh, mail, now)
          IN /\ run.pc = "fetched"
             /\ FailureRoom(run.active, run.evergreen)
             /\ alertState' = alerts.state
             /\ probe' = [probe EXCEPT
                             !.run[i].pc = IF GotSomeData(run.active, run.evergreen)
                                              /\ ~alerts.threw
                                           THEN "alerted" ELSE "done"]
    /\ UNCHANGED <<variant, now, data, lastRefresh, env, lastRun>>

\* worker: "await kvCache.getCachedData(env.CACHE)" settles, then the merge and
\* the detection against what was read
OverlapRead ==
    /\ probe.fn = "overlap" /\ variant = "worker"
    /\ \E i \in Invocations :
          LET run == probe.run[i]
              previous == getCachedData(data, <<>>)
              mergedData == mergeProviderData(run.active.data, run.evergreen.data, Dates,
                                              run.active.status, run.evergreen.status, now)
              changes == detectAgainstCache(previous, mergedData)
          IN /\ run.pc = "alerted"
             /\ probe' = [probe EXCEPT
                             !.run[i].pc = IF Len(changes) > 0 THEN "notifying" ELSE "writing",
                             !.run[i].previous = previous,
                             !.run[i].candidate = mergedData,
                             !.run[i].changes = changes]
    /\ UNCHANGED <<variant, now, data, lastRefresh, alertState, env, lastRun>>

\* worker: "await notifySlotChanges(env, changes)" settles
OverlapNotify ==
    /\ probe.fn = "overlap" /\ variant = "worker"
    /\ \E i \in Invocations :
          /\ probe.run[i].pc = "notifying"
          /\ probe' = [probe EXCEPT !.run[i].pc = "writing"]
    /\ UNCHANGED <<variant, now, data, lastRefresh, alertState, env, lastRun>>

\* worker: "await kvCache.setCachedData(env.CACHE, mergedData)"
OverlapWrite ==
    /\ probe.fn = "overlap" /\ variant = "worker"
    /\ \E i \in Invocations :
          LET stored == put(data, probe.run[i].candidate, now)
          IN /\ probe.run[i].pc = "writing"
             /\ data' = stored.data /\ lastRefresh' = stored.lastRefresh
             /\ probe' = [probe EXCEPT !.run[i].pc = "done",
                                       !.writes = Append(probe.writes, i)]
    /\ UNCHANGED <<variant, now, alertState, env, lastRun>>

\* node: the merge and cache.set, with no await between them
OverlapNodeSet ==
    /\ probe.fn = "overlap" /\ variant = "node"
    /\ \E i \in Invocations :
          LET run == probe.run[i]
              mergedData == mergeProviderData(run.active.data, run.evergreen.data, Dates,
                                              run.active.status, run.evergreen.status, now)
              stored == put(data, mergedData, now)
          IN /\ run.pc = "alerted"
             /\ data' = stored.data /\ lastRefresh' = stored.lastRefresh
             /\ probe' = [probe EXCEPT !.run[i].pc = "done",
                                       !.run[i].candidate = mergedData,
                                       !.writes = Append(probe.writes, i)]
    /\ UNCHANGED <<variant, now, alertState, env, lastRun>>

OverlapNext ==
    \/ OverlapTick \/ OverlapStart \/ OverlapFetched \/ OverlapAlert
    \/ OverlapRead \/ OverlapNotify \/ OverlapWrite \/ OverlapNodeSet

SpecOverlap == OverlapInit /\ [][OverlapNext]_vars

InOverlap == probe.fn = "overlap"

\* C27: with two refresh invocations overlapping, the cache holds at every moment
\* what it held at the start (no write yet) or exactly the candidate of the invocation whose cache
\* write happened last, whole and unmixed with any other candidate; so it does
\* when both have finished
C27_LastWriterWins ==
    InOverlap =>
        IF probe.writes = <<>>
        THEN data = probe.start.data /\ lastRefresh = probe.start.lastRefresh
        ELSE /\ data = probe.run[probe.writes[Len(probe.writes)]].candidate
             /\ \A i \in 1..Len(probe.writes) : probe.run[probe.writes[i]].pc = "done"

C27_Witness ==
    /\ InOverlap /\ probe.writes = <<2, 1>>
    /\ probe.run[1].pc = "done" /\ probe.run[2].pc = "done"
    /\ probe.run[1].at = 0 /\ probe.run[2].at = 1
    /\ probe.run[1].candidate # probe.run[2].candidate
    /\ DOMAIN probe.run[1].candidate.venues["evergreen"].dates = {}
    /\ DOMAIN probe.run[2].candidate.venues["evergreen"].dates # {}
    /\ data = probe.run[1].candidate

----------------------------------------------------------------------------
(* The normalizer on its own: transformEvergreenDayData and                     *)
(* transformActiveDayData applied to one day of a provider's feed, in which the *)
(* 06:00 slot lists some courts.                                                *)

\* the most courts a feed lists for the slot
MaxCourts == 2

SeqsUpTo(S, n) == UNION {[1..k -> S] : k \in 0..n}

\* the authenticated provider's courts: standard badminton courts 2 and 10, the
\* premium court 7 and a table-tennis court, each with its three flags
EvergreenCourts ==
    { EvergreenCourt(name, unavailable, booked, booking) :
        name \in {BadmintonMark \o <<32, 50>>, BadmintonMark \o <<32, 49, 48>>,
                  PremiumName, TableTennisMark \o <<32, 50>>},
        unavailable \in {0, 1}, booked \in {0, 1}, booking \in {0, 1} }

\* the anonymous provider's courts 1, 2 and 10 with the status of their 06:00 slot
ActiveCourts ==
    { ActiveCourt(CourtName(n), <<Timetable("06:00", status)>>) :
        n \in {Digits1, Digits2, Digits10}, status \in {"Available", "Booked"} }

\* the times at which the feed lists the courts: the 06:00 slot alone, or 06:00,
\* the last slot 22:00 and 23:00, which is no slot of the service
FeedTimes == { <<"06:00">>, <<"06:00", "22:00", "23:00">> }

\* the argument of transformEvergreenDayData: undefined when the provider's map
\* has no value for the day
EvergreenFeed ==
    IF probe.absent THEN Null
    ELSE [items |-> [k \in 1..Len(probe.times) |->
                        [time |-> probe.times[k], childer |-> probe.courts]]]

\* the argument of transformActiveDayData: undefined when the provider's answer
\* has no value for the venue
ActiveFeed ==
    IF probe.absent THEN Null
    ELSE [courts |-> [i \in 1..Len(probe.courts) |->
                         ActiveCourt(probe.courts[i].name,
                                     [k \in 1..Len(probe.times) |->
                                         Timetable(probe.times[k],
                                                   probe.courts[i].timetable[1].status)])]]

TransformInit ==
    /\ variant = "worker"
    /\ env = [mail |-> "configured", webhooks |-> {}]
    /\ now = 0
    /\ data = Null
    /\ lastRefresh = NoTime
    /\ alertState = InitialAlertState
    /\ lastRun = NoRun
    /\ probe \in
          { [fn |-> "transformEvergreenDayData", courts |-> cs, times |-> ts,
             absent |-> FALSE, result |-> Null] :
              cs \in SeqsUpTo(EvergreenCourts, MaxCourts), ts \in FeedTimes }
          \cup
          { [fn |-> "transformActiveDayData", courts |-> cs, times |-> ts,
             absent |-> FALSE, result |-> Null] :
              cs \in SeqsUpTo(ActiveCourts, MaxCourts), ts \in FeedTimes }
          \cup
          { [fn |-> f, courts |-> <<>>, times |-> <<"06:00">>,
             absent |-> TRUE, result |-> Null] :
              f \in {"transformEvergreenDayData", "transformActiveDayData"} }

\* transformEvergreenDayData(timeSlots) for the day whose entries list the courts
TransformEvergreenApply ==
    /\ probe.fn = "transformEvergreenDayData" /\ probe.result = Null
    /\ probe' = [probe EXCEPT !.result = transformEvergreenDayData(EvergreenFeed)]
    /\ UNCHANGED <<variant, now, data, lastRefresh, alertState, env, lastRun>>

\* transformActiveDayData(venueData) for the venue with the courts
TransformActiveApply ==
    /\ probe.fn = "transformActiveDayData" /\ probe.result = Null
    /\ probe' = [probe EXCEPT !.result = transformActiveDayData(ActiveFeed)]
    /\ UNCHANGED <<variant, now, data, lastRefresh, alertState, env, lastRun>>

TransformNext == TransformEvergreenApply \/ TransformActiveApply

SpecTransform == TransformInit /\ [][TransformNext]_vars

\* the normalizer of the authenticated / the anonymous provider has been applied
EvergreenApplied == probe.fn = "transformEvergreenDayData" /\ probe.result # Null
ActiveApplied == probe.fn = "transformActiveDayData" /\ probe.result # Null

\* the 06:00 slot of the result
SixSlot == probe.result.slots["06:00"]

\* the positions of the feed's courts that carry the badminton marker and have
\* their three flags at zero
FreeBadminton ==
    {i \in 1..Len(probe.courts) :
        /\ SubSeq(probe.courts[i].name, 1, 2) = <<55356, 57336>>
        /\ probe.courts[i].unavailable = 0
        /\ probe.courts[i].booked = 0
        /\ probe.courts[i].booking = 0}

\* of those, the premium court and the standard courts
FreePremium == {i \in FreeBadminton : probe.courts[i].name = <<55356, 57336, 32, 55>>}
FreeStandard == FreeBadminton \ FreePremium

\* C28: for the authenticated provider a slot's available flag is the OR of
\* standard-court and premium-court availability, and only_premium is true
\* exactly when no standard court is available and the premium court is; with a
\* standard court open (the premium one open or not) only_premium is absent
C28_PremiumFlag ==
    EvergreenApplied =>
        /\ SixSlot.available = (FreeStandard # {} \/ FreePremium # {})
        /\ ("only_premium" \in DOMAIN SixSlot) = (FreeStandard = {} /\ FreePremium # {})
        /\ "only_premium" \in DOMAIN SixSlot => SixSlot.only_premium = TRUE

C28_Witness ==
    /\ EvergreenApplied /\ Len(probe.courts) = 2
    /\ FreePremium = {1} /\ FreeStandard = {}
    /\ probe.courts[2].name # PremiumName /\ probe.courts[2].booked = 1
    /\ SixSlot = [available |-> TRUE, only_premium |-> TRUE, available_courts |-> << <<55>> >>]

\* the number a label of digits writes
RECURSIVE LabelValue(_)
LabelValue(label) ==
    IF label = <<>> THEN 0
    ELSE LabelValue(SubSeq(label, 1, Len(label) - 1)) * 10 + (label[Len(label)] - 48)

\* the positions of the anonymous provider's courts whose 06:00 slot is available
FreeActive ==
    {i \in 1..Len(probe.courts) : probe.courts[i].timetable[1].status = "Available"}

\* the label of the feed's court at a position: the digits of its name, which
\* follow "Court " or the marker and a space
LabelAt(i) ==
    IF probe.fn = "transformActiveDayData"
    THEN SubSeq(probe.courts[i].name, 7, Len(probe.courts[i].name))
    ELSE SubSeq(probe.courts[i].name, 4, Len(probe.courts[i].name))

\* the list holds one label for each of the positions and nothing else
ListsCourts(list, positions) ==
    /\ Len(list) = Cardinality(positions)
    /\ \A label \in {LabelAt(i) : i \in positions} :
          Cardinality({k \in 1..Len(list) : list[k] = label})
             = Cardinality({i \in positions : LabelAt(i) = label})

\* C29 as stated: for every available slot the normalizer produces,
\* available_courts lists the numeric labels of all available courts in ascending
\* numeric order (court 2 before court 10)
C29_AscendingNumericOrder ==
    ((EvergreenApplied \/ ActiveApplied) /\ SixSlot.available) =>
        /\ ListsCourts(SixSlot.available_courts,
                       IF ActiveApplied THEN FreeActive ELSE FreeBadminton)
        /\ \A k \in 1..(Len(SixSlot.available_courts) - 1) :
              LabelValue(SixSlot.available_courts[k])
                 <= LabelValue(SixSlot.available_courts[k + 1])

\* C30: in the authenticated provider's normalization a court contributes to a
\* slot exactly when its name starts with the badminton marker and its
\* unavailable, booked and booking flags are all zero: the slot is available
\* exactly when there is such a court and available_courts holds one label for
\* each such court and nothing else, so a table-tennis court never makes a slot
\* available and never appears in the list
C30_OnlyFreeBadmintonCounts ==
    EvergreenApplied =>
        /\ SixSlot.available = (FreeBadminton # {})
        /\ ("available_courts" \in DOMAIN SixSlot) = (FreeBadminton # {})
        /\ FreeBadminton # {} => ListsCourts(SixSlot.available_courts, FreeBadminton)
        /\ probe.result.summary.available_slots =
              IF FreeBadminton # {}
              THEN Cardinality({probe.times[k] : k \in 1..Len(probe.times)} \cap SlotLabels)
              ELSE 0

C30_Witness ==
    /\ EvergreenApplied /\ Len(probe.courts) = 2
    /\ probe.courts[1] = EvergreenCourt(TableTennisMark \o <<32, 50>>, 0, 0, 0)
    /\ probe.courts[2] = EvergreenCourt(BadmintonMark \o <<32, 50>>, 0, 0, 1)
    /\ SixSlot = [available |-> FALSE]

----------------------------------------------------------------------------
(* The shape of a day *)

\* the seventeen slot labels of the service, written out
FixedLabels ==
    {"06:00", "07:00", "08:00", "09:00", "10:00", "11:00", "12:00", "13:00", "14:00",
     "15:00", "16:00", "17:00", "18:00", "19:00", "20:00", "21:00", "22:00"}

----------------------------------------------------------------------------
(* The authenticated adapter that keeps its token: providers/evergreen.ts of   *)
(* the node deployment.  authToken and tokenExpiry are module variables that   *)
(* outlive a refresh; each await of fetchEvergreenData is one step, and the    *)
(* clock may advance while a request is out.                                   *)

\* "Date.now() + 60 * 60 * 1000", in minutes
TOKEN_LIFETIME_MINUTES == 60

\* the last instant of a behaviour and the minutes of one tick of its clock
MaxTokenTime == 60
TokenTickMinutes == TOKEN_LIFETIME_MINUTES \div 2
\* the dates one call asks for
MaxTokenDates == 2

\* authToken = null
NoToken == 0
TokenIds == 1..3

\* the test of getAuthToken made to accept a token at the instant it expires
hasStoredTokenAtExpiry(store, at) ==
    /\ store.authToken # NoToken
    /\ store.tokenExpiry # NoTime
    /\ store.tokenExpiry >= at

\* getAuthToken: "authToken && tokenExpiry && tokenExpiry > new Date()"
hasStoredToken(store, at) ==
    /\ store.authToken # NoToken
    /\ store.tokenExpiry # NoTime
    /\ store.tokenExpiry > at

\* clearAuthToken(): authToken = null; tokenExpiry = null
clearAuthToken(store) == [authToken |-> NoToken, tokenExpiry |-> NoTime]

\* getAuthToken after "authToken = await login()": the token and its assumed expiry
storeAuthToken(token, at) ==
    [authToken |-> token, tokenExpiry |-> at + TOKEN_LIFETIME_MINUTES]

\* a token the provider has not issued to anything the program still holds
FreshToken(call) ==
    CHOOSE t \in TokenIds :
        /\ t \notin {call.store.authToken, call.token}
        /\ \A u \in TokenIds : u < t => u \in {call.store.authToken, call.token}

\* the step taken last: its name, the store and the clock before it and, for the
\* answer to a date's request, the answer and whether it was the date's first try
NoStep == [step |-> "none", stored |-> clearAuthToken(Null), at |-> 0,
           answer |-> [error |-> "none"], first |-> FALSE]

Step(call, name, at) ==
    [step |-> name, stored |-> call.store, at |-> at,
     answer |-> [error |-> "none"], first |-> FALSE]

\* the adapter between two calls; `logins' counts the login calls of the latest call
IdleAdapter(store) ==
    [store |-> store, pc |-> "idle", token |-> NoToken, logins |-> 0,
     date |-> 0, day |-> NewDay, results |-> {}, last |-> NoStep]

\* the loop of fetchEvergreenData reaches its next date, whose request goes out
\* with the token the call took at its start, or returns its map
nextDate(call) ==
    IF call.date < MaxTokenDates
    THEN [call EXCEPT !.date = call.date + 1,
                      !.day = [NewDay EXCEPT !.pc = "first", !.tokens = <<call.token>>]]
    ELSE [call EXCEPT !.pc = "idle", !.day = NewDay]

TokenInit ==
    /\ variant = "node"
    /\ env = [mail |-> "configured", webhooks |-> {}]
    /\ now = 0
    /\ data = Null
    /\ lastRefresh = NoTime
    /\ alertState = InitialAlertState
    /\ lastRun = NoRun
    /\ probe = IdleAdapter(clearAuthToken(Null))

TokenTick ==
    /\ now + TokenTickMinutes <= MaxTokenTime
    /\ now' = now + TokenTickMinutes
    /\ UNCHANGED <<variant, data, lastRefresh, alertState, env, lastRun, probe>>

\* refreshAllData calls fetchEvergreenData: "const token = await getAuthToken()"
\* returns the stored token, or the login goes out
TokenStart ==
    /\ probe.pc = "idle"
    /\ LET call == [IdleAdapter(probe.store) EXCEPT !.last = Step(probe, "start", now)]
       IN probe' = IF hasStoredToken(probe.store, now)
                   THEN nextDate([call EXCEPT !.pc = "dates",
                                              !.token = probe.store.authToken])
                   ELSE [call EXCEPT !.pc = "login"]
    /\ UNCHANGED <<variant, now, data, lastRefresh, alertState, env, lastRun>>

\* the login of the call's getAuthToken settles: the token is stored with its
\* expiry and the first date goes out, or the throw rejects fetchEvergreenData
TokenLogin ==
    /\ probe.pc = "login"
    /\ \E outcome \in LoginAnswers :
          LET call == [probe EXCEPT !.logins = probe.logins + 1,
                                    !.last = Step(probe, "login", now)]
          IN probe' = IF outcome = "token"
                      THEN nextDate([call EXCEPT
                                        !.pc = "dates",
                                        !.store = storeAuthToken(FreshToken(probe), now),
                                        !.token = FreshToken(probe)])
                      ELSE [call EXCEPT !.pc = "rejected"]
    /\ UNCHANGED <<variant, now, data, lastRefresh, alertState, env, lastRun>>

\* scheduler.ts refreshAllData on the rejected result: clearAuthToken()
TokenRejected ==
    /\ probe.pc = "rejected"
    /\ probe' = [probe EXCEPT !.pc = "idle", !.store = clearAuthToken(probe.store),
                              !.last = Step(probe, "rejected", now)]
    /\ UNCHANGED <<variant, now, data, lastRefresh, alertState, env, lastRun>>

\* the request of the date is answered: fetchDate returns, throws, or clears the
\* token and calls getAuthToken, which finds no token and logs in
TokenDateAnswer ==
    /\ probe.pc = "dates" /\ probe.day.pc \in {"first", "retry"}
    /\ \E answer \in EvergreenDateAnswers :
          LET day == evergreenFetchDate(probe.day, answer)
              seen == [probe EXCEPT
                          !.day = day,
                          !.last = [Step(probe, "answer", now) EXCEPT
                                       !.answer = answer,
                                       !.first = probe.day.pc = "first"]]
          IN probe' = IF day.pc = "login"
                      THEN [seen EXCEPT !.store = clearAuthToken(probe.store)]
                      ELSE seen
    /\ UNCHANGED <<variant, now, data, lastRefresh, alertState, env, lastRun>>

\* the login of the date's getAuthToken settles: the new token is stored and the
\* retry goes out with it, or the throw ends the date
TokenRelogin ==
    /\ probe.pc = "dates" /\ probe.day.pc = "login"
    /\ \E outcome \in LoginAnswers :
          LET call == [probe EXCEPT
                          !.logins = probe.logins + 1,
                          !.day = evergreenRelogin(probe.day, outcome, FreshToken(probe)),
                          !.last = Step(probe, "relogin", now)]
          IN probe' = IF outcome = "token"
                      THEN [call EXCEPT !.store = storeAuthToken(FreshToken(probe), now)]
                      ELSE call
    /\ UNCHANGED <<variant, now, data, lastRefresh, alertState, env, lastRun>>

\* the loop goes on after the date it awaited: results.set or the catch, then
\* the next date or "return results"
TokenResume ==
    /\ probe.pc = "dates" /\ Settled(probe.day)
    /\ probe' = nextDate([probe EXCEPT
                              !.results = IF probe.day.pc = "ok"
                                          THEN probe.results \cup {probe.date}
                                          ELSE probe.results,
                              !.last = Step(probe, "resume", now)])
    /\ UNCHANGED <<variant, now, data, lastRefresh, alertState, env, lastRun>>

TokenNext ==
    \/ TokenTick \/ TokenStart \/ TokenLogin \/ TokenRejected
    \/ TokenDateAnswer \/ TokenRelogin \/ TokenResume

SpecToken == TokenInit /\ [][TokenNext]_vars

\* a login call is out: the one of the call's start, or the one made for a date
LoginOut == probe.pc = "login" \/ (probe.pc = "dates" /\ probe.day.pc = "login")

\* the store before the last step held a token that had not reached its expiry
HadUnexpiredToken ==
    /\ probe.last.stored.authToken # NoToken
    /\ probe.last.stored.tokenExpiry > probe.last.at

\* logins happen only without a usable stored token, and a call that starts with
\* an unexpired stored token takes it without a login
LoginOnlyWithoutToken ==
    /\ LoginOut => (probe.store.authToken = NoToken \/ probe.store.tokenExpiry <= now)
    /\ probe.last.step = "start" =>
          IF HadUnexpiredToken
          THEN /\ probe.pc = "dates" /\ probe.logins = 0
               /\ probe.store = probe.last.stored
               /\ probe.token = probe.last.stored.authToken
               /\ probe.day.tokens = <<probe.last.stored.authToken>>
          ELSE probe.pc = "login"

\* the rejected fetch leaves no token stored
ClearedWhenRejected ==
    probe.last.step = "rejected" =>
        probe.store = [authToken |-> NoToken, tokenExpiry |-> NoTime]

\* the last step was the answer 401 / error code to a date's request
AnsweredAuthTrouble == probe.last.step = "answer" /\ AuthTrouble(probe.last.answer)

----------------------------------------------------------------------------
(* The token of the later dates *)

\* the date's fetch re-logged in and its retry went out with the new token
ReloggedIn(day) == Len(day.tokens) = 2

\* C33 as stated: after a re-login made while fetching one date, the later dates
\* of the same fetchEvergreenData call are requested with the refreshed token
C33_LaterDatesUseRefreshedToken ==
    InEvergreen =>
        \A d \in 2..probe.dates :
            (ReloggedIn(probe.day[d - 1]) /\ probe.day[d].tokens # <<>>) =>
                probe.day[d].tokens[1] = probe.day[d - 1].tokens[2]

----------------------------------------------------------------------------
(* Changes across refreshes *)

\* the invocation has read the cache, merged and detected
HasDetected(run) == run.pc \in {"notifying", "writing", "done"} /\ run.candidate # Null

\* the changes the invocation detected for the venue
ChangesOf(run, v) == {k \in 1..Len(run.changes) : run.changes[k].venueId = v}

\* C34: a refresh that finds a venue stored with an empty dates map (its provider
\* failed in the refresh that stored the snapshot while the other succeeded)
\* yields no SlotChange for that venue, whatever the availabilities of its
\* slots now are
C34_NoChangesAfterEmptyDates ==
    (InOverlap /\ variant = "worker") =>
        \A i \in Invocations :
            (HasDetected(probe.run[i]) /\ probe.run[i].previous # Null) =>
                \A v \in DOMAIN probe.run[i].previous.venues :
                    DOMAIN probe.run[i].previous.venues[v].dates = {} =>
                        ChangesOf(probe.run[i], v) = {}

\* the first refresh stored the authenticated provider's venue without dates
\* after its fetch was rejected; the second finds that snapshot, merges a day of
\* that venue with an available 06:00 slot and reports nothing for it
C34_Witness ==
    /\ InOverlap /\ variant = "worker" /\ probe.writes = <<1, 2>>
    /\ probe.run[2].previous = probe.run[1].candidate
    /\ probe.run[1].candidate.provider_status.evergreen.status = "error"
    /\ probe.run[1].candidate.provider_status.active.status = "ok"
    /\ DOMAIN probe.run[2].previous.venues["evergreen"].dates = {}
    /\ probe.run[2].candidate.provider_status.evergreen.status = "ok"
    /\ probe.run[2].candidate.venues["evergreen"].dates[1].slots["06:00"].available
    /\ ChangesOf(probe.run[2], "evergreen") = {}

----------------------------------------------------------------------------
(* Refreshes one after the other: the worker's refreshAllData invoked again    *)
(* only after the invocation before it has returned, with the snapshot stored  *)
(* and the changes reported by each kept in a history.                          *)

\* the refreshes of a behaviour
MaxRefreshes == 3

SequenceInit ==
    /\ variant = "worker"
    /\ env = [mail |-> "configured", webhooks |-> {"oi-my-court"}]
    /\ now = 0
    /\ data = Null
    /\ lastRefresh = NoTime
    /\ alertState = InitialAlertState
    /\ lastRun = NoRun
    /\ probe = [fn |-> "sequence", history |-> <<>>]

\* refreshAllData(env) from its call to its return, then the note of what it
\* stored and reported
SequenceRefresh ==
    /\ probe.fn = "sequence" /\ Len(probe.history) < MaxRefreshes
    /\ \E activeResult \in ActiveResults, evergreenResult \in EvergreenResults :
          WorkerProcessed([active |-> ActiveAnswer(activeResult),
                           evergreen |-> EvergreenAnswer(evergreenResult)],
                          ProcessResult(activeResult, now, "Active"),
                          ProcessResult(evergreenResult, now, "Evergreen"))
    /\ probe' = [probe EXCEPT !.history =
                    Append(probe.history,
                           [stored |-> data', wrote |-> lastRun'.wrote,
                            changes |-> lastRun'.changes, posts |-> lastRun'.posts])]
    /\ UNCHANGED <<variant, now, env>>

SequenceNext == SequenceRefresh

SpecSequence == SequenceInit /\ [][SequenceNext]_vars

InSequence == probe.fn = "sequence"

\* the slot of the venue and date is in the snapshot and available
OpenIn(snapshot, t) ==
    /\ snapshot # Null
    /\ t[2] \in DOMAIN snapshot.venues[t[1]].dates
    /\ snapshot.venues[t[1]].dates[t[2]].slots[t[3]].available

\* the refresh reported the slot and posted its changes to the webhook targets
ReportedIn(entry, t) ==
    /\ \E k \in 1..Len(entry.changes) :
          <<entry.changes[k].venueId, entry.changes[k].date, entry.changes[k].timeSlot>> = t
    /\ entry.posts # <<>>

SequenceSlots == VenueIds \X (1..FetchDaysAhead) \X {"06:00", "07:00"}

\* C35: in a sequence of refreshes that do not overlap, a slot is reported by a
\* refresh only if it is available in the snapshot that refresh stored and was
\* not available in the snapshot stored by the refresh before it; so over any
\* stretch of consecutive snapshots in which the slot stays available at most
\* one refresh dispatches it
C35_ReportedOncePerOpening ==
    InSequence =>
        \A t \in SequenceSlots :
            /\ \A k \in 1..Len(probe.history) :
                  ReportedIn(probe.history[k], t) =>
                      /\ probe.history[k].wrote
                      /\ OpenIn(probe.history[k].stored, t)
                      /\ k > 1 /\ ~OpenIn(probe.history[k - 1].stored, t)
            /\ \A a \in 1..Len(probe.history), b \in 1..Len(probe.history) :
                  (\A k \in a..b : OpenIn(probe.history[k].stored, t)) =>
                      Cardinality({k \in a..b : ReportedIn(probe.history[k], t)}) <= 1

\* the first refresh stores the slot closed, the second finds it open and
\* dispatches it, the third finds it still open and reports nothing for it
C35_Witness ==
    /\ InSequence /\ Len(probe.history) = 3
    /\ \A k \in 1..3 : probe.history[k].wrote
    /\ LET t == <<"evergreen", 1, "06:00">>
       IN /\ probe.history[1].stored.venues["evergreen"].dates # <<>>
          /\ ~OpenIn(probe.history[1].stored, t)
          /\ OpenIn(probe.history[2].stored, t) /\ ReportedIn(probe.history[2], t)
          /\ OpenIn(probe.history[3].stored, t) /\ ~ReportedIn(probe.history[3], t)

----------------------------------------------------------------------------
(* Changes seen by overlapping invocations *)

\* the invocation's notifySlotChanges has returned after posting the slot
Dispatched(run, t) ==
    /\ run.pc \in {"writing", "done"}
    /\ \E k \in 1..Len(run.changes) :
          <<run.changes[k].venueId, run.changes[k].date, run.changes[k].timeSlot>> = t

\* C36 as stated: when two refresh invocations overlap, the transition of a
\* slot from unavailable in the stored snapshot to available is dispatched to
\* the webhook targets by at most one of them
C36_DispatchedByOneInvocation ==
    (InOverlap /\ variant = "worker") =>
        \A t \in SequenceSlots :
            ~ /\ Dispatched(probe.run[1], t)
              /\ Dispatched(probe.run[2], t)
              /\ probe.run[1].previous = probe.run[2].previous

----------------------------------------------------------------------------
(* Overlapping failure handling: two invocations of the worker's                *)
(* onRefreshFailure, each followed from await to await.  The alert state lives  *)
(* in KV under one key; getAlertState and setAlertState are a get and a put of  *)
(* the whole value.                                                             *)

\* the failure counters the two invocations can find
RaceStartCounts == {0, 1}

\* an invocation of onRefreshFailure: where it stands, the state it read at its
\* start and the state sendAlert read
NewFailureHandling ==
    [pc |-> "idle", state |-> InitialAlertState, sendState |-> InitialAlertState]

RaceInit ==
    /\ variant = "worker"
    /\ env = [mail |-> "configured", webhooks |-> {}]
    /\ now = 0
    /\ data = Null
    /\ lastRefresh = NoTime
    /\ \E n \in RaceStartCounts :
          /\ alertState = [consecutiveFailures |-> n, lastAlertTime |-> NoTime]
          /\ probe = [fn |-> "onRefreshFailure", start |-> n,
                      run |-> [i \in Invocations |-> NewFailureHandling]]
    /\ lastRun = NoRun

\* refreshAllData has seen a provider fail and calls onRefreshFailure:
\* "await getAlertState(env.CACHE)" goes out
RaceCall ==
    /\ probe.fn = "onRefreshFailure"
    /\ \E i \in Invocations :
          /\ probe.run[i].pc = "idle"
          /\ probe' = [probe EXCEPT !.run[i].pc = "get"]
    /\ UNCHANGED <<variant, now, data, lastRefresh, alertState, env, lastRun>>

\* "const state = await getAlertState(env.CACHE)" settles with the stored value
RaceGet ==
    /\ probe.fn = "onRefreshFailure"
    /\ \E i \in Invocations :
          /\ probe.run[i].pc = "get"
          /\ probe' = [probe EXCEPT !.run[i].pc = "put", !.run[i].state = alertState]
    /\ UNCHANGED <<variant, now, data, lastRefresh, alertState, env, lastRun>>

\* "await setAlertState(env.CACHE, newState)" with the counter of the state read
\* raised by one; then the cache reads for the body, and sendAlert is called
RacePut ==
    /\ probe.fn = "onRefreshFailure"
    /\ \E i \in Invocations :
          /\ probe.run[i].pc = "put"
          /\ alertState' = [probe.run[i].state EXCEPT
                                !.consecutiveFailures =
                                    probe.run[i].state.consecutiveFailures + 1]
          /\ probe' = [probe EXCEPT !.run[i].pc = "sendGet"]
    /\ UNCHANGED <<variant, now, data, lastRefresh, env, lastRun>>

\* sendAlert: "const state = await getAlertState(env.CACHE)" settles, then the
\* cooldown test; the message goes to env.EMAIL.send when it passes
RaceSendGet ==
    /\ probe.fn = "onRefreshFailure"
    /\ \E i \in Invocations :
          /\ probe.run[i].pc = "sendGet"
          /\ probe' = [probe EXCEPT
                          !.run[i].sendState = alertState,
                          !.run[i].pc = IF isInCooldown(alertState, ALERT_COOLDOWN_MINUTES, now)
                                        THEN "done" ELSE "sending"]
    /\ UNCHANGED <<variant, now, data, lastRefresh, alertState, env, lastRun>>

\* "await env.EMAIL.send(message)" settles: delivered, or the throw is caught
RaceSent ==
    /\ probe.fn = "onRefreshFailure"
    /\ \E i \in Invocations, mail \in MailAnswers(env.mail) :
          /\ probe.run[i].pc = "sending"
          /\ probe' = [probe EXCEPT !.run[i].pc = IF mail = "ok" THEN "stamp" ELSE "done"]
    /\ UNCHANGED <<variant, now, data, lastRefresh, alertState, env, lastRun>>

\* sendAlert: "await setAlertState(env.CACHE, {...state, lastAlertTime})" with
\* the state sendAlert read
RaceStamp ==
    /\ probe.fn = "onRefreshFailure"
    /\ \E i \in Invocations :
          /\ probe.run[i].pc = "stamp"
          /\ alertState' = [probe.run[i].sendState EXCEPT !.lastAlertTime = now]
          /\ probe' = [probe EXCEPT !.run[i].pc = "done"]
    /\ UNCHANGED <<variant, now, data, lastRefresh, env, lastRun>>

RaceNext == RaceCall \/ RaceGet \/ RacePut \/ RaceSendGet \/ RaceSent \/ RaceStamp

SpecRace == RaceInit /\ [][RaceNext]_vars

\* C37 as stated: no failure increment is lost; when two overlapping refresh
\* invocations have each handled a provider failure, the persisted counter is
\* exactly 2 higher than before
C37_NoIncrementLost ==
    (probe.fn = "onRefreshFailure" /\ \A i \in Invocations : probe.run[i].pc = "done")
        => alertState.consecutiveFailures = probe.start + 2

\* C38 as stated: in the KV-backed alert manager, after onRecovery has delivered
\* a recovery alert the persisted state has consecutiveFailures = 0 and
\* lastAlertTime equal to the time of that alert
C38_RecoveryKeepsAlertTime ==
    (variant = "worker" /\ lastRun.ran /\ Len(lastRun.attempts) = 1
     /\ lastRun.attempts[1].subject = RecoverySubject
     /\ lastRun.attempts[1].outcome = "sent")
        => /\ alertState.consecutiveFailures = 0
           /\ alertState.lastAlertTime = lastRun.at

----------------------------------------------------------------------------
(* sendAlert on its own: one call of the worker's sendAlert or of the node's    *)
(* AlertService.sendAlert, for every alert state, subject, mail configuration   *)
(* and answer of the transport.                                                 *)

\* the instants of the calls and the alert times they can find
SendInstants == {30, 45}
SendAlertTimes == {NoTime, 0, 15, 30}

SendInit ==
    /\ variant \in {"worker", "node"}
    /\ env \in IF variant = "worker"
               THEN [mail : WorkerMailConfigs, webhooks : {{}}]
               ELSE [mail : NodeMailConfigs, webhooks : {{}}]
    /\ now \in SendInstants
    /\ data = Null
    /\ lastRefresh = NoTime
    /\ alertState \in [consecutiveFailures : 0..MaxFailures, lastAlertTime : SendAlertTimes]
    /\ lastRun = NoRun
    /\ probe \in [fn : {"sendAlert"}, subject : {FailureSubject("Active"), RecoverySubject},
                  called : {FALSE}, before : {alertState}, mail : {"none"},
                  threw : {FALSE}]

\* one call of sendAlert(env, subject, body) / alertService.sendAlert(subject, body)
SendCall ==
    /\ probe.fn = "sendAlert" /\ ~probe.called
    /\ \E mail \in MailAnswers(env.mail) :
          LET sent == IF variant = "worker"
                      THEN sendAlert(alertState, probe.subject, "", mail, now)
                      ELSE AlertServiceSendAlert(alertState, probe.subject, "", mail, now)
          IN /\ alertState' = sent.state
             /\ probe' = [probe EXCEPT !.called = TRUE, !.mail = mail, !.threw = sent.threw]
    /\ UNCHANGED <<variant, now, data, lastRefresh, env, lastRun>>

SendNext == SendCall

SpecSend == SendInit /\ [][SendNext]_vars

\* the call met the cooldown with a subject that is not a recovery
SuppressedByCooldown ==
    /\ probe.before.lastAlertTime # NoTime
    /\ now - probe.before.lastAlertTime < ALERT_COOLDOWN_MINUTES
    /\ probe.subject # <<"Recovered">>

\* C39: lastAlertTime changes only when an alert is actually delivered, and then
\* to the instant of the delivery: an alert suppressed by the cooldown, skipped
\* because mail is not configured (no binding, no recipient, no runtime class,
\* alerts disabled), or whose delivery throws, leaves the alert state as it was;
\* in no case does the call raise an error
C39_StampOnlyOnDelivery ==
    (probe.fn = "sendAlert" /\ probe.called) =>
        /\ ~probe.threw
        /\ alertState.consecutiveFailures = probe.before.consecutiveFailures
        /\ IF probe.mail = "ok" /\ ~SuppressedByCooldown
           THEN alertState.lastAlertTime = now
           ELSE alertState = probe.before

\* a recovery alert a quarter of an hour after the last alert passes the
\* cooldown, the transport throws, and the alert time stays where it was
C39_Witness ==
    /\ probe.fn = "sendAlert" /\ probe.called
    /\ variant = "worker" /\ probe.mail = "throws"
    /\ probe.subject = <<"Recovered">>
    /\ now = 30 /\ probe.before.lastAlertTime = 15
    /\ alertState.lastAlertTime = 15 /\ ~probe.threw

----------------------------------------------------------------------------
(* POST /refresh of the worker: routes/refresh.ts *)

\* the manual refreshes of a behaviour
MaxPosts == 2

\* the answer of the route: `run' is what refreshAllData did, `cachedData' and
\* `stamp' what the cache holds when the route reads it afterwards
refreshPost(run, cachedData, stamp, at) ==
    IF run.raised
    THEN [status |-> 500,
          body |-> [success |-> FALSE, message |-> "Refresh failed: "]]
    ELSE [status |-> 200,
          body |-> [success |-> TRUE, message |-> "Data refreshed successfully",
                    cache |-> [generated_at |-> IF cachedData = Null THEN NoTime
                                                ELSE cachedData.generated_at,
                               is_stale |-> isStale(stamp, at)]]]

PostInit ==
    /\ variant = "worker"
    /\ env = [mail |-> "configured", webhooks |-> {"oi-my-court"}]
    /\ now = 0
    /\ data = Null
    /\ lastRefresh = NoTime
    /\ alertState = InitialAlertState
    /\ lastRun = NoRun
    /\ probe = [fn |-> "refresh.post", posts |-> 0, response |-> Null]

\* refresh.post("/"): await refreshAllData(c.env), then the reads of the cache
\* and the JSON answer
RefreshPost ==
    /\ probe.fn = "refresh.post" /\ probe.posts < MaxPosts
    /\ \E activeResult \in ActiveResults, evergreenResult \in EvergreenResults :
          WorkerProcessed([active |-> ActiveAnswer(activeResult),
                           evergreen |-> EvergreenAnswer(evergreenResult)],
                          ProcessResult(activeResult, now, "Active"),
                          ProcessResult(evergreenResult, now, "Evergreen"))
    /\ probe' = [probe EXCEPT
                    !.posts = probe.posts + 1,
                    !.response = refreshPost(lastRun', getCachedData(data', <<>>),
                                             lastRefresh', now)]
    /\ UNCHANGED <<variant, now, env>>

\* time passes between two manual refreshes
PostTick ==
    /\ probe.fn = "refresh.post"
    /\ Tick

PostNext == RefreshPost \/ PostTick

SpecPost == PostInit /\ [][PostNext]_vars

\* C40 as stated: POST /refresh answers success:true with "Data refreshed
\* successfully" only if that call replaced the cached snapshot; a call in which
\* both providers returned no data does not report success
C40_SuccessOnlyWhenReplaced ==
    (probe.fn = "refresh.post" /\ probe.response # Null) =>
        /\ (probe.response.body.success
            /\ probe.response.body.message = "Data refreshed successfully")
              => lastRun.wrote
        /\ (YieldedNothing(lastRun.active) /\ YieldedNothing(lastRun.evergreen))
              => ~probe.response.body.success


=============================================================================
